---------------------------- MODULE Spec2Model ----------------------------
(***************************************************************************)
(* A model of the star-detection pipeline of core/detection.py             *)
(* (detect_stars, find_local_peak, flood_fill_star, sample_halo_color,     *)
(* map_threshold_to_internal).                                             *)
(*                                                                         *)
(* Number representation.  The code computes in IEEE doubles; the model    *)
(* computes in integers:                                                   *)
(*   - a luminance l is kept as the integer 5000*l, which is exact because *)
(*     0.2126 r + 0.7152 g + 0.0722 b = (1063 r + 3576 g + 361 b) / 5000;  *)
(*   - the internal cutoff t is kept as the integer 99*t, which is exact   *)
(*     because t = 140 + (s-1)*100/99;                                     *)
(*   - every comparison of the region grower and of the shape validator is *)
(*     decided exactly, in rationals (products are compared without being  *)
(*     formed, see ProdLess);                                              *)
(*   - a star's x, y and radius and a colour channel are kept in fixed     *)
(*     point, in units of 1/256 (FP); its brightness b is kept as the      *)
(*     integer 1275000*b = 5000*max_lum.                                   *)
(***************************************************************************)
EXTENDS Integers, Sequences, FiniteSets, TLC

(***************************************************************************)
(* Arithmetic helpers.                                                     *)
(***************************************************************************)
Max(a, b) == IF a >= b THEN a ELSE b
Min(a, b) == IF a <= b THEN a ELSE b
Abs(a) == IF a >= 0 THEN a ELSE -a

\* p/q < r/s for naturals p, r and positive q, s, by the Euclidean algorithm
\* on the two fractions (no product is formed).
RECURSIVE FracLess(_, _, _, _)
FracLess(p, q, r, s) ==
    LET ip == p \div q
        ir == r \div s
        fp == p % q
        fr == r % s
    IN  IF ip # ir THEN ip < ir
        ELSE IF fr = 0 THEN FALSE
        ELSE IF fp = 0 THEN TRUE
        ELSE FracLess(s, fr, q, fp)

\* a*b < c*d for naturals a, b, c, d.
ProdLess(a, b, c, d) ==
    IF c = 0 \/ d = 0 THEN FALSE
    ELSE IF a = 0 \/ b = 0 THEN TRUE
    ELSE FracLess(a, c, d, b)

\* floor(sqrt(n)) for a natural n, by Newton's iteration from above.
RECURSIVE IsqrtFrom(_, _)
IsqrtFrom(n, x) ==
    LET y == (x + n \div x) \div 2
    IN  IF y >= x THEN x ELSE IsqrtFrom(n, y)

Isqrt(n) == IF n < 2 THEN n ELSE IsqrtFrom(n, n \div 2 + 1)

\* The fixed-point unit: a real v is kept as floor(v * FP).
FracBits == 2 * 4
FP == 2 ^ FracBits

\* floor(r * 2^k / b) for 0 <= r < b, one binary digit at a time.
RECURSIVE FracDigits(_, _, _)
FracDigits(r, b, k) ==
    IF k = 0 THEN 0
    ELSE LET r2 == 2 * r
         IN  (r2 \div b) * (2 ^ (k - 1)) + FracDigits(r2 % b, b, k - 1)

\* floor(a * FP / b), the fixed-point value of the float division a / b,
\* for a natural a and a positive b.
FixDiv(a, b) == (a \div b) * FP + FracDigits(a % b, b, FracBits)

\* A wide natural <<hi, lo>> stands for hi * 2^WideBits + lo, lo < 2^WideBits:
\* the sums sum_x and sum_y of a large region exceed 31 bits.
WideBits == 4 * 5
WideZero == <<0, 0>>

\* w + n for a wide w and a natural n.
WideAdd(w, n) ==
    LET lo == w[2] + n
    IN  <<w[1] + (lo \div 2 ^ WideBits), lo % (2 ^ WideBits)>>

\* <<quotient, remainder>> of (r * 2^k + the low k bits of lo) by b, given
\* the quotient q so far and r < b, one binary digit at a time.
RECURSIVE LongDiv(_, _, _, _, _)
LongDiv(q, r, lo, b, k) ==
    IF k = 0 THEN <<q, r>>
    ELSE LET r2 == 2 * r + ((lo \div 2 ^ (k - 1)) % 2)
         IN  LongDiv(2 * q + (r2 \div b), r2 % b, lo, b, k - 1)

\* floor(w * FP / b) for a wide w and a positive b.
WideFixDiv(w, b) ==
    LET qr == LongDiv(w[1] \div b, w[1] % b, w[2], b, WideBits)
    IN  qr[1] * FP + FracDigits(qr[2], b, FracBits)

\* round() of a fixed-point value: to the nearest integer, a tie to the even
\* one.
Round(v) ==
    LET lower == v \div FP
    IN  IF v % FP = FP \div 2
        THEN (IF lower % 2 = 0 THEN lower ELSE lower + 1)
        ELSE (v + FP \div 2) \div FP

(***************************************************************************)
(* Images.  An image is [height, width, channels, data]: data is the       *)
(* row-major sequence of the pixels, each a tuple of `channels` 8-bit      *)
(* values (numpy shape (H, W, C)).                                         *)
(***************************************************************************)
PixelAt(image, x, y) == image.data[y * image.width + x + 1]

InBounds(x, y, width, height) == x >= 0 /\ x < width /\ y >= 0 /\ y < height

\* lum = 0.2126 r + 0.7152 g + 0.0722 b, in units of 1/5000.
LumScale == 5 * 1000
Luminance(p) == 1063 * p[1] + 3576 * p[2] + 361 * p[3]
LumAt(image, x, y) == Luminance(PixelAt(image, x, y))

\* The map without the shift of the UI threshold by one.
map_threshold_unshifted(ui_threshold) ==
    140 * (100 - 1) + ui_threshold * (240 - 140)

\* The map with the sign of the offset turned.
map_threshold_negated(ui_threshold) ==
    (ui_threshold - 1) * (240 - 140) - 140 * (100 - 1)

\* 99 times the internal cutoff of a UI threshold.
ThresholdScale == 100 - 1
map_threshold_to_internal(ui_threshold) ==
    140 * ThresholdScale + (ui_threshold - 1) * (240 - 140)

\* l > t, for a luminance l (in 1/5000) and a cutoff t (in 1/99).
AboveThreshold(l, t) == l * ThresholdScale > t * LumScale

\* The stride of the candidate scan.
stride == 4

\* The scan with a stride of 1: every pixel above the cutoff, in row-major
\* order.
DenseCandidates(image, t) ==
    SelectSeq([k \in 1 .. image.width * image.height |->
                  <<(k - 1) % image.width, (k - 1) \div image.width>>],
              LAMBDA c : AboveThreshold(LumAt(image, c[1], c[2]), t))

\* lum[0:height:stride, 0:width:stride]: the grid points in row-major order,
\* as <<x, y>>.
GridCells(image) ==
    LET gw == (image.width + stride - 1) \div stride
        gh == (image.height + stride - 1) \div stride
    IN  [k \in 1 .. gw * gh |->
            <<((k - 1) % gw) * stride, ((k - 1) \div gw) * stride>>]

\* np.where(lum_strided > internal_threshold): the grid points above the
\* cutoff, in row-major order.
Candidates(image, t) ==
    SelectSeq(GridCells(image),
              LAMBDA c : AboveThreshold(LumAt(image, c[1], c[2]), t))

\* The cap on the moves of find_local_peak.
PeakIterations == 20

\* The brightest cell of the 5x5 window around (x, y) clipped to the image.
WindowArgmaxWide(image, x, y) ==
    LET window == (Max(0, x - 2) .. Min(image.width, x + 3) - 1)
                  \X (Max(0, y - 2) .. Min(image.height, y + 3) - 1)
        tops == {c \in window :
                    \A d \in window :
                        LumAt(image, d[1], d[2]) <= LumAt(image, c[1], c[2])}
    IN  CHOOSE c \in tops :
            \A d \in tops : c[2] < d[2] \/ (c[2] = d[2] /\ c[1] <= d[1])

\* The cell np.argmax picks in the 3x3 window around (x, y) clipped to the
\* image: the first cell of maximal luminance in row-major order.
WindowArgmax(image, x, y) ==
    LET y_min == Max(0, y - 1)
        y_max == Min(image.height, y + 2)
        x_min == Max(0, x - 1)
        x_max == Min(image.width, x + 2)
        window == (x_min .. x_max - 1) \X (y_min .. y_max - 1)
        max_val == CHOOSE v \in {LumAt(image, c[1], c[2]) : c \in window} :
                      \A c \in window : LumAt(image, c[1], c[2]) <= v
        tops == {c \in window : LumAt(image, c[1], c[2]) = max_val}
    IN  CHOOSE c \in tops :
            \A d \in tops : c[2] < d[2] \/ (c[2] = d[2] /\ c[1] <= d[1])

RECURSIVE PeakClimb(_, _, _, _)
PeakClimb(image, x, y, k) ==
    IF k = 0 THEN <<x, y, LumAt(image, x, y)>>
    ELSE LET best == WindowArgmax(image, x, y)
         IN  IF LumAt(image, best[1], best[2]) > LumAt(image, x, y)
             THEN PeakClimb(image, best[1], best[2], k - 1)
             ELSE <<x, y, LumAt(image, x, y)>>

\* find_local_peak: <<x, y, luminance>> of the cell the climb from (x, y)
\* ends on.
find_local_peak(image, x, y) == PeakClimb(image, x, y, PeakIterations)

\* A list that takes a peak whether or not its coordinate is present.
AppendPeak(peaks, p) == Append(peaks, p)

\* unique_peaks[(px, py)] = plum: a dict keeps the position of a key that
\* is already present.
PutPeak(peaks, p) ==
    IF \E i \in 1 .. Len(peaks) : peaks[i][1] = p[1] /\ peaks[i][2] = p[2]
    THEN [i \in 1 .. Len(peaks) |->
             IF peaks[i][1] = p[1] /\ peaks[i][2] = p[2] THEN p ELSE peaks[i]]
    ELSE Append(peaks, p)

\* The sort keys of detect_stars, as "a's key is strictly larger than b's":
\* a peak's luminance, a star's radius, a star's brightness * radius.
KeyBefore(kind, a, b) ==
    CASE kind = "lum" -> a[3] > b[3]
      [] kind = "radius" -> a.radius > b.radius
      [] kind = "prominence" ->
             ProdLess(b.brightness, b.radius, a.brightness, a.radius)

\* list.sort(key, reverse=True) is stable.  Two sorted lists merged: an
\* element of the first goes behind the elements of the second with a
\* strictly larger key, one of the second behind the elements of the first
\* whose key is not smaller.
MergeDesc(a, b, kind) ==
    LET pa(i) == i + Cardinality({j \in DOMAIN b : KeyBefore(kind, b[j], a[i])})
        pb(j) == j + Cardinality({i \in DOMAIN a : ~KeyBefore(kind, b[j], a[i])})
    IN  [k \in 1 .. Len(a) + Len(b) |->
            IF \E i \in DOMAIN a : pa(i) = k
            THEN a[CHOOSE i \in DOMAIN a : pa(i) = k]
            ELSE b[CHOOSE j \in DOMAIN b : pb(j) = k]]

RECURSIVE SortRange(_, _, _, _)
SortRange(seq, lo, hi, kind) ==
    IF lo > hi THEN <<>>
    ELSE IF lo = hi THEN <<seq[lo]>>
    ELSE MergeDesc(SortRange(seq, lo, (lo + hi) \div 2, kind),
                   SortRange(seq, ((lo + hi) \div 2) + 1, hi, kind), kind)

SortDesc(seq, kind) == SortRange(seq, 1, Len(seq), kind)

(***************************************************************************)
(* flood_fill_star.  Its local variables are the fields of one record; a   *)
(* pixel coordinate is <<x, y>>.                                           *)
(***************************************************************************)
\* A cap that does not grow with the luminance.
MaxPixelsFlat(max_lum) == 1000

\* max_pixels = int(1000 + (max_lum / 255.0) * 50000), in exact arithmetic.
\* Where the exact value is an integer the doubles can fall just short of
\* it and give one less (50999 for white, 51000 here); no region of the
\* inputs comes near such a cap.
MaxPixels(max_lum) == 1000 + (max_lum * (50000 \div LumScale)) \div 255

\* The state of flood_fill_star on entering its loop.
FloodFillInit(image, start_x, start_y) ==
    LET max_lum == LumAt(image, start_x, start_y)
    IN  [start |-> <<start_x, start_y>>,
         sum_x |-> WideZero, sum_y |-> WideZero, sum_lum |-> 0,
         sum_r |-> 0, sum_g |-> 0, sum_b |-> 0, sum_color_weight |-> 0,
         pixel_count |-> 0,
         max_lum |-> max_lum,
         min_x |-> start_x, max_x |-> start_x,
         min_y |-> start_y, max_y |-> start_y,
         pixel_coords |-> <<>>,
         stack |-> << <<start_x, start_y>> >>,
         max_pixels |-> MaxPixels(max_lum),
         path_min_lum |-> max_lum]

\* l < max_lum * min_lum_ratio, with min_lum_ratio = 0.20 = 1/5.
BelowRatio(l, max_lum) == max_lum > 0 /\ 5 * l < max_lum

\* Accepts without the test of the claim mask.
AcceptsUnmasked(image, t, checked, f, cx, cy) ==
    /\ InBounds(cx, cy, image.width, image.height)
    /\ AboveThreshold(LumAt(image, cx, cy), t)
    /\ ~BelowRatio(LumAt(image, cx, cy), f.max_lum)

\* Accepts without the floor of a fifth of the peak's luminance.
AcceptsAnyRatio(image, t, checked, f, cx, cy) ==
    /\ InBounds(cx, cy, image.width, image.height)
    /\ <<cx, cy>> \notin checked
    /\ AboveThreshold(LumAt(image, cx, cy), t)

\* Whether a popped pixel is accepted into the region.
Accepts(image, t, checked, f, cx, cy) ==
    /\ InBounds(cx, cy, image.width, image.height)
    /\ <<cx, cy>> \notin checked
    /\ AboveThreshold(LumAt(image, cx, cy), t)
    /\ ~BelowRatio(LumAt(image, cx, cy), f.max_lum)

\* The unit of a colour weight: a weight w is kept as floor(w * 1275).
WeightScale == 255 * 5

\* color_weight of a pixel of luminance l: 0.01 for a burned pixel, else
\* l / 255 + 2 * saturation with saturation = (max_rgb - min_rgb) / 255.
ColorWeight(p, l) ==
    LET max_rgb == Max(p[1], Max(p[2], p[3]))
        min_rgb == Min(p[1], Min(p[2], p[3]))
    IN  IF p[1] > 245 /\ p[2] > 245 /\ p[3] > 245
        THEN (WeightScale + 50) \div 100
        ELSE (l * WeightScale) \div (255 * LumScale)
             + (IF max_rgb > 0 THEN (2 * (max_rgb - min_rgb) * WeightScale) \div 255
                ELSE 0)

\* A neighbour held back only when more than twice as bright as path_min.
ClimbsOutDouble(nl, path_min_lum) == nl > 2 * path_min_lum

\* No neighbour held back.
ClimbsNowhere(nl, path_min_lum) == FALSE

\* nl > path_min_lum + max(10, path_min_lum * 0.15)
ClimbsOut(nl, path_min_lum) ==
    100 * nl > 100 * path_min_lum + Max(10 * 100 * LumScale, 15 * path_min_lum)

\* The neighbours an accepted pixel pushes, in the order of the code.
RECURSIVE PushNeighbors(_, _, _, _)
PushNeighbors(image, stack, neighbors, path_min_lum) ==
    IF neighbors = <<>> THEN stack
    ELSE LET n == Head(neighbors)
             pushed ==
                 IF /\ InBounds(n[1], n[2], image.width, image.height)
                    /\ ~ClimbsOut(LumAt(image, n[1], n[2]), path_min_lum)
                 THEN Append(stack, n) ELSE stack
         IN  PushNeighbors(image, pushed, Tail(neighbors), path_min_lum)

\* The locals after the pixel (cx, cy) has been accepted.
AcceptPixel(image, f, cx, cy) ==
    LET l == LumAt(image, cx, cy)
        p == PixelAt(image, cx, cy)
        path_min == IF l < f.path_min_lum THEN l ELSE f.path_min_lum
        w == ColorWeight(p, l)
        neighbors == << <<cx + 1, cy>>, <<cx - 1, cy>>,
                        <<cx, cy + 1>>, <<cx, cy - 1>> >>
    IN  [f EXCEPT !.path_min_lum = path_min,
                  !.min_x = Min(f.min_x, cx), !.max_x = Max(f.max_x, cx),
                  !.min_y = Min(f.min_y, cy), !.max_y = Max(f.max_y, cy),
                  !.pixel_coords = Append(f.pixel_coords, <<cx, cy>>),
                  !.sum_x = WideAdd(f.sum_x, cx * l),
                  !.sum_y = WideAdd(f.sum_y, cy * l),
                  !.sum_lum = f.sum_lum + l,
                  !.sum_r = f.sum_r + p[1] * w,
                  !.sum_g = f.sum_g + p[2] * w,
                  !.sum_b = f.sum_b + p[3] * w,
                  !.sum_color_weight = f.sum_color_weight + w,
                  !.pixel_count = f.pixel_count + 1,
                  !.stack = PushNeighbors(image, f.stack, neighbors, path_min)]

\* One iteration of the while loop: pop a pixel, then accept or skip it.
\* f.stack is the stack after the pop.
FloodFillStep(image, t, checked, f) ==
    LET top == f.stack[Len(f.stack)]
        popped == [f EXCEPT !.stack = SubSeq(f.stack, 1, Len(f.stack) - 1)]
    IN  IF Accepts(image, t, checked, popped, top[1], top[2])
        THEN [f |-> AcceptPixel(image, popped, top[1], top[2]),
              checked |-> checked \cup {top}]
        ELSE [f |-> popped, checked |-> checked]

\* The loop with a cap of 100 pixels.
FloodFillRunningShort(f) == f.stack # <<>> /\ f.pixel_count < 100

\* while stack and pixel_count < max_pixels
FloodFillRunning(f) == f.stack # <<>> /\ f.pixel_count < f.max_pixels

\* Sums over pixel_coords[lo .. hi]:
\* <<sum x, sum y, sum x*x, sum y*y, sum x*y>>.
RECURSIVE CoordSums(_, _, _)
CoordSums(coords, lo, hi) ==
    IF lo > hi THEN <<0, 0, 0, 0, 0>>
    ELSE IF lo = hi
    THEN LET x == coords[lo][1]
             y == coords[lo][2]
         IN  <<x, y, x * x, y * y, x * y>>
    ELSE LET mid == (lo + hi) \div 2
             l == CoordSums(coords, lo, mid)
             r == CoordSums(coords, mid + 1, hi)
         IN  [k \in 1 .. 5 |-> l[k] + r[k]]

\* The eccentricity check with a limit of 15 in place of 1.5.
AxisRatioRejectsLoose(f) ==
    LET n == f.pixel_count
        m == CoordSums(f.pixel_coords, 1, n)
        a == n * m[3] - m[1] * m[1]
        b == n * m[4] - m[2] * m[2]
        c == n * m[5] - m[1] * m[2]
        u == 113 * Abs(a - b)
        v == 113 * 2 * Abs(c)
        t == 112 * (a + b)
    IN  /\ n >= 10
        /\ a + b > 0
        /\ ProdLess(Abs(c), Abs(c), a, b)
        /\ IF u >= t THEN u > t \/ v > 0
           ELSE ProdLess(t - u, t + u, v, v)

\* The eccentricity check: pixel_count >= 10, trace > 0, lambda2 > 0 and
\* axis_ratio = sqrt(lambda1 / lambda2) > 1.5.  With n the pixel count and
\* a = n*n*mu20, b = n*n*mu02, c = n*n*mu11 (integers):
\*   lambda2 > 0      iff  c*c < a*b
\*   axis_ratio > 1.5 iff  13 * sqrt((a-b)^2 + 4 c^2) > 5 * (a+b)
\*                    iff  (13 u)^2 + (13 v)^2 > (5 t)^2
\* with u = |a-b|, v = 2|c|, t = a+b.
AxisRatioRejects(f) ==
    LET n == f.pixel_count
        m == CoordSums(f.pixel_coords, 1, n)
        a == n * m[3] - m[1] * m[1]
        b == n * m[4] - m[2] * m[2]
        c == n * m[5] - m[1] * m[2]
        u == 13 * Abs(a - b)
        v == 13 * 2 * Abs(c)
        t == 5 * (a + b)
    IN  /\ n >= 10
        /\ a + b > 0
        /\ ProdLess(Abs(c), Abs(c), a, b)
        /\ IF u >= t THEN u > t \/ v > 0
           ELSE ProdLess(t - u, t + u, v, v)

\* aspect_ratio = max(w, h) / max(min(w, h), 1) > 5.0
AspectRejects(f) ==
    LET bbox_width == f.max_x - f.min_x + 1
        bbox_height == f.max_y - f.min_y + 1
    IN  Max(bbox_width, bbox_height) > 5 * Max(Min(bbox_width, bbox_height), 1)

\* The fill check applied to regions of more than 500 pixels only.
FillRejectsLarge(f) ==
    LET bbox_area == (f.max_x - f.min_x + 1) * (f.max_y - f.min_y + 1)
    IN  10 * f.pixel_count < Max(bbox_area, 1) /\ f.pixel_count > 500

\* fill_ratio = pixel_count / max(bbox_area, 1) < 0.10 and pixel_count > 50
FillRejects(f) ==
    LET bbox_area == (f.max_x - f.min_x + 1) * (f.max_y - f.min_y + 1)
    IN  10 * f.pixel_count < Max(bbox_area, 1) /\ f.pixel_count > 50

\* Why flood_fill_star returns None, or "star" when it returns a star.
Verdict(f) ==
    IF f.pixel_count = 0 THEN "empty"
    ELSE IF AxisRatioRejects(f) THEN "axis"
    ELSE IF AspectRejects(f) THEN "aspect"
    ELSE IF FillRejects(f) THEN "fill"
    ELSE "star"

\* Radius with the quotient truncated to an integer before the root.
RadiusTruncated(pixel_count) == Isqrt((pixel_count * 113) \div 355) * FP

\* calculated_radius = sqrt(pixel_count / pi), in fixed point (pi = 355/113).
Radius(pixel_count) == Isqrt(((pixel_count * 113 * FP) \div 355) * FP)

White == <<255 * FP, 255 * FP, 255 * FP>>

\* The Star built from the accumulated sums.
MakeStar(f) ==
    [x |-> WideFixDiv(f.sum_x, f.sum_lum),
     y |-> WideFixDiv(f.sum_y, f.sum_lum),
     brightness |-> f.max_lum,
     radius |-> Radius(f.pixel_count),
     color |-> IF f.sum_color_weight > 0
               THEN <<FixDiv(f.sum_r, f.sum_color_weight),
                      FixDiv(f.sum_g, f.sum_color_weight),
                      FixDiv(f.sum_b, f.sum_color_weight)>>
               ELSE White]

\* Whether building the Star raises ZeroDivisionError: sum_x / sum_lum and
\* sum_y / sum_lum are the divisions without a guard.
DividesByZero(f) == Verdict(f) = "star" /\ f.sum_lum = 0

\* What flood_fill_star returns after its loop: <<>> for None, else <<star>>.
FloodFillResult(f) ==
    IF Verdict(f) = "star" /\ ~DividesByZero(f) THEN <<MakeStar(f)>> ELSE <<>>

(***************************************************************************)
(* The merge predicate of detect_stars.                                    *)
(***************************************************************************)
\* brightness units: 1.0 is 255 * LumScale.
BrightnessOne == 255 * LumScale

\* dist < (existing.radius + star.radius) * num / 100, on the squares.
CloserThan(star, existing, num) ==
    LET dx == star.x - existing.x
        dy == star.y - existing.y
        reach == (existing.radius + star.radius) * num
    IN  ProdLess(dx * dx + dy * dy, 100 * 100, reach, reach)

\* should_merge with 0.02 in place of 0.25 in the second branch.
should_merge_loose(star, existing) ==
    LET floor == Max(existing.brightness, BrightnessOne \div 100)
        is_much_dimmer == 10 * star.brightness < 4 * floor
        is_tiny == star.radius < 5 * FP
    IN  IF is_much_dimmer \/ is_tiny
        THEN CloserThan(star, existing, 120)
        ELSE CloserThan(star, existing, 2)

should_merge(star, existing) ==
    LET floor == Max(existing.brightness, BrightnessOne \div 100)
        is_much_dimmer == 10 * star.brightness < 4 * floor
        is_tiny == star.radius < 5 * FP
    IN  IF is_much_dimmer \/ is_tiny
        THEN CloserThan(star, existing, 120)
        ELSE CloserThan(star, existing, 25)

\* The inner loop of the merge: whether some kept star absorbs the star.
Merged(star, merged_stars) ==
    \E i \in 1 .. Len(merged_stars) : should_merge(star, merged_stars[i])

(***************************************************************************)
(* sample_halo_color.                                                      *)
(***************************************************************************)
samples == 24

\* 1024 * cos(i * 2 pi / 24), i = 0 .. 23.
CosTable ==
    <<1024, 989, 887, 724, 512, 265, 0, -265, -512, -724, -887, -989,
      -1024, -989, -887, -724, -512, -265, 0, 265, 512, 724, 887, 989>>

Cos(i) == CosTable[(i % samples) + 1]
Sin(i) == CosTable[((i + 18) % samples) + 1]

\* The pixel the i-th sample falls on.
HaloSample(star, i) ==
    LET inner_radius == (star.radius * 3) \div 2
        outer_radius == star.radius * 3
        radius == (inner_radius + outer_radius) \div 2
    IN  <<Round(star.x + (Cos(i) * radius) \div 1024),
          Round(star.y + (Sin(i) * radius) \div 1024)>>

\* <<sum_r, sum_g, sum_b, sample_count>> over the samples 0 .. k-1.
RECURSIVE HaloSums(_, _, _)
HaloSums(image, star, k) ==
    IF k = 0 THEN <<0, 0, 0, 0>>
    ELSE LET r == HaloSums(image, star, k - 1)
             s == HaloSample(star, k - 1)
         IN  IF InBounds(s[1], s[2], image.width, image.height)
             THEN LET p == PixelAt(image, s[1], s[2])
                  IN  <<r[1] + p[1], r[2] + p[2], r[3] + p[3], r[4] + 1>>
             ELSE r

\* The halo left at the default of an empty ring.
sample_halo_opaque(image, star) == White

sample_halo_color(image, star) ==
    LET h == HaloSums(image, star, samples)
    IN  IF h[4] = 0 THEN White
        ELSE <<FixDiv(h[1], h[4]), FixDiv(h[2], h[4]), FixDiv(h[3], h[4])>>

(***************************************************************************)
(* The inputs the model is checked on.                                     *)
(***************************************************************************)
Black == <<0, 0, 0>>
Dim == <<200, 160, 40>>
Grey == <<200, 200, 200>>
Bright == <<250, 250, 240>>
Burned == <<255, 255, 255>>

\* The images of a given size whose columns are each of one colour.
StripeImages(width, height, palette) ==
    {[height |-> height, width |-> width, channels |-> 3,
      data |-> [i \in 1 .. width * height |-> cols[((i - 1) % width) + 1]]] :
        cols \in [1 .. width -> palette]}

\* An image painted with rectangles [x0, y0, x1, y1, c] over black, a later
\* rectangle over an earlier one.
RECURSIVE ColourUnder(_, _, _, _)
ColourUnder(rects, k, x, y) ==
    IF k = 0 THEN Black
    ELSE IF /\ rects[k].x0 <= x /\ x <= rects[k].x1
            /\ rects[k].y0 <= y /\ y <= rects[k].y1
         THEN rects[k].c
         ELSE ColourUnder(rects, k - 1, x, y)

Painted(width, height, rects) ==
    [height |-> height, width |-> width, channels |-> 3,
     data |-> [i \in 1 .. width * height |->
                  ColourUnder(rects, Len(rects),
                              (i - 1) % width, (i - 1) \div width)]]

Rect(x0, y0, x1, y1, c) == [x0 |-> x0, y0 |-> y0, x1 |-> x1, y1 |-> y1, c |-> c]

\* The same image with an alpha channel (shape (H, W, 4)).
WithAlpha(image) ==
    [image EXCEPT !.channels = 4,
                  !.data = [i \in DOMAIN image.data |-> image.data[i] \o <<255>>]]

\* A buffer of the given shape whose pixels are all zero.
Zeros(width, height, channels) ==
    [height |-> height, width |-> width, channels |-> channels,
     data |-> [i \in 1 .. width * height |-> [k \in 1 .. channels |-> 0]]]

\* The width of the exhaustively enumerated stripe images.
StripeWidth == 6

StripePalette == {Black, Dim, Burned}

\* A bright ring around a dimmer core, one dark pixel apart: two regions of
\* more than 78 pixels each, their centres half a pixel apart.
RingAndCore ==
    Painted(16, 15, <<Rect(0, 0, 15, 14, Bright), Rect(2, 2, 13, 12, Black),
                      Rect(3, 3, 11, 11, Grey)>>)

\* Two 9x9 blocks one dark column apart.
TwoBlocks ==
    Painted(19, 9, <<Rect(0, 0, 8, 8, Bright), Rect(10, 0, 18, 8, Grey)>>)

\* A 3x3 block and a 2x2 block close to it, and a bright pixel off the
\* stride grid.
SmallBlocks ==
    Painted(7, 3, <<Rect(0, 0, 2, 2, Grey), Rect(4, 0, 5, 1, Bright)>>)

OffGrid == Painted(7, 6, <<Rect(1, 1, 3, 3, Burned), Rect(5, 5, 6, 5, Bright)>>)

Ash == <<195, 195, 195>>
Pale == <<205, 205, 205>>

\* A grey pixel on the stride grid, a slightly darker one beside it and a
\* slightly brighter one behind that, off the grid.
Saddle ==
    Painted(6, 1, <<Rect(0, 0, 0, 0, Grey), Rect(1, 0, 1, 0, Ash),
                    Rect(2, 0, 2, 0, Pale)>>)

\* A filled disk of colour c, of radius r around (cx, cy), on black.
Disk(width, height, cx, cy, r, c) ==
    [height |-> height, width |-> width, channels |-> 3,
     data |-> [i \in 1 .. width * height |->
                  LET dx == ((i - 1) % width) - cx
                      dy == ((i - 1) \div width) - cy
                  IN  IF dx * dx + dy * dy <= r * r THEN c ELSE Black]]

\* The radius of the disk of scenario A.
DiskRadius == 2 * 5

\* Disks of maximum luminance: in the middle of the image with the centre
\* on the stride grid, with the centre off the grid, and touching the
\* border of the image.
DiskImages ==
    {Disk(25, 25, 12, 12, DiskRadius, Burned),
     Disk(26, 24, 13, 11, DiskRadius, Burned),
     Disk(21, 21, 10, 10, DiskRadius, Burned)}

DiskScenes == {[image |-> i, threshold |-> t] : i \in DiskImages, t \in {1, 100}}

\* Filled rectangles of 40x4 px on black: filling the image, inside a
\* larger image, and upright.
RectImages(c) ==
    {Painted(40, 4, <<Rect(0, 0, 39, 3, c)>>),
     Painted(44, 9, <<Rect(2, 3, 41, 6, c)>>),
     Painted(6, 42, <<Rect(1, 1, 4, 40, c)>>)}

\* The rectangles with a colour above the cutoff of the threshold.
RectScenes ==
    {[image |-> i, threshold |-> 1] : i \in RectImages(Burned) \cup RectImages(Dim)}
    \cup {[image |-> i, threshold |-> 100] : i \in RectImages(Bright)}

Shade(v) == <<v, v, v>>

\* A row with a tent of greys whose top is off the stride grid, so that the
\* grid points on its two sides climb to the same cell; a uniform block
\* holding two grid points; and a dimmer single pixel.
TentRow ==
    Painted(17, 1, <<Rect(0, 0, 4, 0, Shade(180)), Rect(1, 0, 3, 0, Shade(190)),
                     Rect(2, 0, 2, 0, Grey), Rect(8, 0, 12, 0, Dim),
                     Rect(16, 0, 16, 0, Shade(150))>>)

Faint == <<0, 1, 0>>

\* A uniform image of 34 * 34 = 1156 pixels of luminance 0.7152, whose
\* pixel cap is int(1000 + (0.7152 / 255) * 50000) = 1140.  detect_stars
\* takes any integer as threshold; at -138 the cutoff is 140 - 139 * 100 / 99
\* = -0.4, below the luminance of every pixel.
CapImage == Painted(34, 34, <<Rect(0, 0, 33, 33, Faint)>>)

CapScenes == {[image |-> CapImage, threshold |-> -138]}

\* A burned pixel with a rim of a fifth of its luminance or less beside it,
\* and a brighter pixel behind the rim.  At threshold -118 the cutoff is
\* 140 - 119 * 100 / 99 = 19.8, below the rim's luminance of 40; with a
\* cutoff of 140 or more no pixel above the cutoff is below a fifth of any
\* luminance.
RimRow ==
    Painted(6, 1, <<Rect(0, 0, 0, 0, Burned), Rect(1, 0, 1, 0, Shade(40)),
                    Rect(2, 0, 2, 0, Shade(60))>>)

RimScenes == {[image |-> RimRow, threshold |-> -118]}

\* A cross of two lines one pixel wide: 53 pixels in a bounding box of
\* 27 x 27, as long as it is wide.
Cross ==
    Painted(27, 27, <<Rect(12, 0, 12, 26, Burned), Rect(0, 12, 26, 12, Burned)>>)

\* A peak with a dim pixel on one side and a pixel nearly as bright as
\* itself on the other.
Shoulder ==
    Painted(6, 1, <<Rect(0, 0, 0, 0, Shade(150)), Rect(1, 0, 1, 0, Grey),
                    Rect(2, 0, 2, 0, Ash)>>)

Scenes ==
    {[image |-> RingAndCore, threshold |-> 1],
     [image |-> TwoBlocks, threshold |-> 1],
     [image |-> SmallBlocks, threshold |-> 1],
     [image |-> WithAlpha(SmallBlocks), threshold |-> 50],
     [image |-> OffGrid, threshold |-> 1],
     [image |-> Saddle, threshold |-> 1],
     [image |-> TentRow, threshold |-> 1],
     [image |-> Cross, threshold |-> 1],
     [image |-> Shoulder, threshold |-> 1]}

\* Buffers detect_stars cannot read three channels of, or that are empty.
Degenerate ==
    {[image |-> Zeros(w, h, c), threshold |-> 1] :
        w \in {0, 2}, h \in {0, 2}, c \in 0 .. 4}

Inputs ==
    {[image |-> i, threshold |-> t] :
        i \in (StripeImages(StripeWidth, 1, StripePalette)
               \cup StripeImages(StripeWidth - 1, 2, {Black, Burned})),
        t \in {1, 100}}
    \cup Scenes \cup DiskScenes \cup RectScenes \cup CapScenes \cup RimScenes
    \cup Degenerate

(***************************************************************************)
(* The state machine.  One call of detect_stars is a walk through pc:      *)
(*   "call" -> "peaks" -> "grow" <-> "fill" -> "merge" -> "done",          *)
(* or to "error" when the call raises.  The locals  *)
(* of detect_stars and flood_fill_star are variables; regions, skipped,    *)
(* first and calls record what has happened and are read by no action.     *)
(***************************************************************************)
VARIABLES
    image_data,          \* the image of the current call
    threshold,           \* the UI threshold of the current call
    pc,                  \* the position of the current call
    internal_threshold,  \* detect_stars: 99 * internal_threshold
    candidates,          \* detect_stars: (cx_indices, cy_indices) * stride
    ci,                  \* detect_stars: the index i of the peak loop
    unique_peaks,        \* detect_stars: the dict, in insertion order
    sorted_peaks,        \* detect_stars
    pi,                  \* detect_stars: the index of the growth loop
    stars,               \* detect_stars
    checked,             \* detect_stars: the set of claimed pixels
    f,                   \* the locals of the running flood_fill_star
    merged_stars,        \* detect_stars
    mi,                  \* detect_stars: the index of the merge loop
    hi,                  \* detect_stars: the index of the halo loop
    result,              \* what the current call returned
    regions,             \* the regions grown in this pass, in order
    skipped,             \* the peaks of this pass skipped as claimed
    first,               \* <<>>, or the input and outcome of the first call
    calls,               \* the number of calls completed
    probe,               \* the arguments and result of the function applied
                         \* (SpecMap, SpecRender, SpecPeak)
    image_id,            \* MainWindow: image_data, 0 for None, else its number
    config,              \* MainWindow: config.threshold
    threads,             \* the StarDetectionThreads created, the last one
                         \* being MainWindow.thread
    detect_timer,        \* MainWindow: 0 when inactive, else the interval
    events,              \* the stars_detected signals queued for the window
    canvas,              \* <<>>, or the input of the stars the canvas shows
    acted,               \* the number of user actions so far
    request,             \* what the last step did with a detection request
    editor               \* MainWindow and CanvasPreview: the star list shown,
                         \* the tool state and the undo/redo history

vars == <<image_data, threshold, pc, internal_threshold, candidates, ci,
          unique_peaks, sorted_peaks, pi, stars, checked, f, merged_stars,
          mi, hi, result, regions, skipped, first, calls, probe, image_id,
          config, threads, detect_timer, events, canvas, acted, request,
          editor>>

window == <<image_id, config, threads, detect_timer, events, canvas, acted,
            request, editor>>

locals == <<internal_threshold, candidates, ci, unique_peaks, sorted_peaks,
            pi, stars, checked, f, merged_stars, mi, hi>>

NoFill == FloodFillInit(Zeros(1, 1, 3), 0, 0)

LocalsInit ==
    /\ internal_threshold = 0
    /\ candidates = <<>>
    /\ ci = 1
    /\ unique_peaks = <<>>
    /\ sorted_peaks = <<>>
    /\ pi = 1
    /\ stars = <<>>
    /\ checked = {}
    /\ f = NoFill
    /\ merged_stars = <<>>
    /\ mi = 1
    /\ hi = 1
    /\ result = <<>>
    /\ regions = <<>>
    /\ skipped = {}
    /\ first = <<>>
    /\ calls = 0

\* SpikeConfig.threshold, the default of the dataclass.
DEFAULT_CONFIG == 240

\* MainWindow.__init__: the default configuration, no image, no thread, the
\* timer created but not started.
\* MainWindow.__init__ and CanvasPreview.__init__: no image, no stars, the
\* pan tool, an empty history; the left button is up.
EditorInit ==
    [image |-> FALSE, stars |-> <<>>, tool_mode |-> "none",
     is_dragging |-> FALSE, is_erasing |-> FALSE, button_down |-> FALSE,
     history |-> <<>>, history_index |-> -1, last |-> "none"]

WindowInit ==
    /\ image_id = 0
    /\ config = DEFAULT_CONFIG
    /\ threads = <<>>
    /\ detect_timer = 0
    /\ events = <<>>
    /\ canvas = <<>>
    /\ acted = 0
    /\ request = "none"
    /\ editor = EditorInit

InitWith(inputs) ==
    /\ \E in \in inputs : image_data = in.image /\ threshold = in.threshold
    /\ pc = "call"
    /\ probe = <<>>
    /\ LocalsInit
    /\ WindowInit

Init == InitWith(Inputs)

\* The outcome of a call that has ended: a call that raises returns nothing.
Outcome ==
    [ok |-> pc = "done", stars |-> IF pc = "done" THEN result ELSE <<>>]

\* What a call that ends leaves in first and calls.
Completed(ok, returned) ==
    /\ calls' = calls + 1
    /\ first' = IF first = <<>>
                THEN <<[image |-> image_data, threshold |-> threshold,
                        outcome |-> [ok |-> ok, stars |-> returned]]>>
                ELSE first

\* A buffer without pixels refused as well.
RaisesOnEmpty(image) ==
    image.channels < 3 \/ image.width = 0 \/ image.height = 0

\* Whether detect_stars raises on the buffer: image_data[:, :, 0..2] raises
\* IndexError unless the buffer has three channels; nothing else is checked.
Raises(image) == image.channels < 3

\* detect_stars, lines 59-78: the cutoff, the luminance field and the
\* candidates of the stride scan, unless reading the channels raises.
Start ==
    /\ pc = "call"
    /\ IF Raises(image_data)
       THEN /\ pc' = "error"
            /\ Completed(FALSE, <<>>)
            /\ UNCHANGED <<locals, result, regions, skipped>>
       ELSE /\ pc' = "peaks"
            /\ internal_threshold' = map_threshold_to_internal(threshold)
            /\ candidates' = Candidates(image_data, internal_threshold')
            /\ ci' = 1
            /\ unique_peaks' = <<>>
            /\ UNCHANGED <<sorted_peaks, pi, stars, checked, f, merged_stars,
                           mi, hi, result, regions, skipped, first, calls>>
    /\ UNCHANGED <<image_data, threshold, probe,
                   window>>

\* detect_stars, lines 80-87: one iteration of the peak loop.
PeakStep ==
    /\ pc = "peaks"
    /\ ci <= Len(candidates)
    /\ LET peak == find_local_peak(image_data, candidates[ci][1],
                                   candidates[ci][2])
       IN  unique_peaks' = IF AboveThreshold(peak[3], internal_threshold)
                           THEN PutPeak(unique_peaks, peak)
                           ELSE unique_peaks
    /\ ci' = ci + 1
    /\ UNCHANGED <<image_data, threshold, pc, internal_threshold, candidates,
                   sorted_peaks, pi, stars, checked, f, merged_stars, mi, hi,
                   result, regions, skipped, first, calls, probe,
                   window>>

\* The mask of the earlier call kept.
StaleMask(old) == old

\* checked = np.zeros((height, width), dtype=bool): a new mask, whatever the
\* mask of an earlier call holds.
FreshMask(old) == {}

\* detect_stars, lines 91-94: the peaks sorted, an empty star list and a
\* fresh claim mask.
SortPeaks ==
    /\ pc = "peaks"
    /\ ci > Len(candidates)
    /\ sorted_peaks' = SortDesc(unique_peaks, "lum")
    /\ stars' = <<>>
    /\ checked' = FreshMask(checked)
    /\ pi' = 1
    /\ regions' = <<>>
    /\ skipped' = {}
    /\ pc' = "grow"
    /\ UNCHANGED <<image_data, threshold, internal_threshold, candidates, ci,
                   unique_peaks, f, merged_stars, mi, hi, result, first,
                   calls, probe,
                   window>>

\* detect_stars, lines 96-100, and flood_fill_star, lines 155-186: the next
\* peak is skipped when claimed, else a region starts to grow from it.
GrowNext ==
    /\ pc = "grow"
    /\ pi <= Len(sorted_peaks)
    /\ LET px == sorted_peaks[pi][1]
           py == sorted_peaks[pi][2]
       IN  IF <<px, py>> \in checked
           THEN /\ pi' = pi + 1
                /\ skipped' = skipped \cup {<<px, py>>}
                /\ UNCHANGED <<pc, f>>
           ELSE /\ f' = FloodFillInit(image_data, px, py)
                /\ pc' = "fill"
                /\ UNCHANGED <<pi, skipped>>
    /\ UNCHANGED <<image_data, threshold, internal_threshold, candidates, ci,
                   unique_peaks, sorted_peaks, stars, checked, merged_stars,
                   mi, hi, result, regions, first, calls, probe,
                   window>>

\* flood_fill_star, lines 188-266: one iteration of the while loop.
FillPop ==
    /\ pc = "fill"
    /\ FloodFillRunning(f)
    /\ LET next == FloodFillStep(image_data, internal_threshold, checked, f)
       IN  /\ f' = next.f
           /\ checked' = next.checked
    /\ UNCHANGED <<image_data, threshold, pc, internal_threshold, candidates,
                   ci, unique_peaks, sorted_peaks, pi, stars, merged_stars,
                   mi, hi, result, regions, skipped, first, calls, probe,
                   window>>

\* The claim mask with the pixels of a rejected region released.
ReleasedAfterFill(mask, fill) ==
    IF Verdict(fill) = "star" THEN mask
    ELSE mask \ {fill.pixel_coords[i] : i \in DOMAIN fill.pixel_coords}

\* The claim mask when flood_fill_star returns: the finalisation (lines
\* 268-341) does not write it.
CheckedAfterFill(mask, fill) == mask

\* flood_fill_star, lines 268-341, and detect_stars, lines 101-102: the
\* region is validated and its star, if any, appended; a division by zero
\* in building the star ends the call with ZeroDivisionError.
FillFinish ==
    /\ pc = "fill"
    /\ ~FloodFillRunning(f)
    /\ checked' = CheckedAfterFill(checked, f)
    /\ regions' = Append(regions,
                         [peak |-> f.start,
                          pixels |-> f.pixel_coords,
                          verdict |-> Verdict(f),
                          sum_lum |-> f.sum_lum,
                          sum_color_weight |-> f.sum_color_weight,
                          raised |-> DividesByZero(f),
                          star |-> FloodFillResult(f)])
    /\ IF DividesByZero(f)
       THEN /\ pc' = "error"
            /\ Completed(FALSE, <<>>)
            /\ UNCHANGED <<stars, pi>>
       ELSE /\ stars' = stars \o FloodFillResult(f)
            /\ pi' = pi + 1
            /\ pc' = "grow"
            /\ UNCHANGED <<first, calls>>
    /\ UNCHANGED <<image_data, threshold, internal_threshold, candidates, ci,
                   unique_peaks, sorted_peaks, f, merged_stars, mi, hi,
                   result, skipped, probe,
                   window>>

\* The raw stars merged in the order they were grown.
MergeOrderAsGrown(raw) == raw

\* stars.sort(key=lambda s: s.radius, reverse=True)
MergeOrder(raw) == SortDesc(raw, "radius")

\* detect_stars, lines 106-107: the raw stars sorted by radius.
MergeSort ==
    /\ pc = "grow"
    /\ pi > Len(sorted_peaks)
    /\ stars' = MergeOrder(stars)
    /\ merged_stars' = <<>>
    /\ mi' = 1
    /\ hi' = 1
    /\ pc' = "merge"
    /\ UNCHANGED <<image_data, threshold, internal_threshold, candidates, ci,
                   unique_peaks, sorted_peaks, pi, checked, f, result,
                   regions, skipped, first, calls, probe,
                   window>>

\* detect_stars, lines 109-142: one iteration of the merge loop.
MergeStep ==
    /\ pc = "merge"
    /\ mi <= Len(stars)
    /\ merged_stars' = IF Merged(stars[mi], merged_stars)
                       THEN merged_stars
                       ELSE Append(merged_stars, stars[mi])
    /\ mi' = mi + 1
    /\ UNCHANGED <<image_data, threshold, pc, internal_threshold, candidates,
                   ci, unique_peaks, sorted_peaks, pi, stars, checked, f, hi,
                   result, regions, skipped, first, calls, probe,
                   window>>

\* detect_stars, lines 145-146: one iteration of the halo loop.
HaloStep ==
    /\ pc = "merge"
    /\ mi > Len(stars)
    /\ hi <= Len(merged_stars)
    /\ merged_stars' =
           [merged_stars EXCEPT
               ![hi].color = sample_halo_color(image_data, merged_stars[hi])]
    /\ hi' = hi + 1
    /\ UNCHANGED <<image_data, threshold, pc, internal_threshold, candidates,
                   ci, unique_peaks, sorted_peaks, pi, stars, checked, f, mi,
                   result, regions, skipped, first, calls, probe,
                   window>>

\* The final sort left out.
Unsorted(kept) == kept

\* merged_stars.sort(key=lambda s: s.brightness * s.radius, reverse=True)
FinalOrder(kept) == SortDesc(kept, "prominence")

\* detect_stars, lines 149-150: the final sort and the return.
FinalSort ==
    /\ pc = "merge"
    /\ mi > Len(stars)
    /\ hi > Len(merged_stars)
    /\ merged_stars' = FinalOrder(merged_stars)
    /\ result' = merged_stars'
    /\ pc' = "done"
    /\ Completed(TRUE, result')
    /\ UNCHANGED <<image_data, threshold, internal_threshold, candidates, ci,
                   unique_peaks, sorted_peaks, pi, stars, checked, f, mi, hi,
                   regions, skipped, probe,
                   window>>

Next ==
    \/ Start
    \/ PeakStep
    \/ SortPeaks
    \/ GrowNext
    \/ FillPop
    \/ FillFinish
    \/ MergeSort
    \/ MergeStep
    \/ HaloStep
    \/ FinalSort

Spec == Init /\ [][Next]_vars

(***************************************************************************)
(* Several calls in a row: the caller (StarDetectionThread.run) calls      *)
(* detect_stars again after a call has returned or raised.  The variables  *)
(* keep what the earlier call left in them.                                *)
(***************************************************************************)
MaxCalls == 3

CallInputs ==
    {[image |-> i, threshold |-> 1] : i \in StripeImages(2, 1, StripePalette)}
    \cup {[image |-> Painted(2, 1, <<Rect(0, 0, 0, 0, Dim),
                                     Rect(1, 0, 1, 0, Burned)>>),
           threshold |-> 100],
          [image |-> Zeros(2, 1, 2), threshold |-> 1]}

CallAgain ==
    /\ pc \in {"done", "error"}
    /\ calls < MaxCalls
    /\ \E in \in CallInputs :
           image_data' = in.image /\ threshold' = in.threshold
    /\ pc' = "call"
    /\ UNCHANGED <<locals, result, regions, skipped, first, calls, probe,
                   window>>

InitCalls == InitWith(CallInputs)

NextCalls == Next \/ CallAgain

SpecCalls == InitCalls /\ [][NextCalls]_vars

(***************************************************************************)
(* map_threshold_to_internal alone, applied to a pair of UI thresholds.    *)
(***************************************************************************)
UiThresholds == 1 .. 100

InitMap ==
    /\ image_data = Zeros(0, 0, 3)
    /\ threshold = 1
    /\ pc = "map"
    /\ \E a \in UiThresholds, b \in UiThresholds :
           probe = [a |-> a, b |-> b, ta |-> 0, tb |-> 0]
    /\ LocalsInit
    /\ WindowInit

MapStep ==
    /\ pc = "map"
    /\ pc' = "mapped"
    /\ probe' = [probe EXCEPT !.ta = map_threshold_to_internal(probe.a),
                              !.tb = map_threshold_to_internal(probe.b)]
    /\ UNCHANGED <<image_data, threshold, locals, result, regions, skipped,
                   first, calls, window>>

NextMap == MapStep

SpecMap == InitMap /\ [][NextMap]_vars

(***************************************************************************)
(* Renderer.render: the stars it draws.  The limit is computed in IEEE      *)
(* doubles, int(len(stars) * (config.star_amount / 100.0)) with an integral *)
(* star_amount p in 0..100 (the slider's step is 1).  q = fl(p / 100) is    *)
(* p / 100 rounded to 53 bits: with 2^-k <= p/100 < 2^(1-k) and s = 52 + k, *)
(* q = round(p * 2^s / 100) / 2^s, and r = p * 2^s mod 100 tells the        *)
(* direction: q is below p/100 by r / (100 * 2^s) when 0 < r < 50, else on  *)
(* or above it.  The product n * q is within 2^-52 (relative) of n*p/100,   *)
(* so its truncation is floor(n*p/100) unless n*p/100 is an integer m and   *)
(* fl(n * q) < m; that happens when q is below p/100 and the deficit        *)
(* n * r / (100 * 2^s) exceeds half the spacing of the doubles below m,     *)
(* 2^(j-53) for 2^j < m < 2^(j+1) and 2^(j-54) for m = 2^j (a tie rounds    *)
(* to m, whose significand is even).                                        *)
(***************************************************************************)
\* The largest list of stars handed to the renderer.
MaxStars == 50

RECURSIVE PowMod(_, _, _)
PowMod(b, e, m) == IF e = 0 THEN 1 % m ELSE (b * PowMod(b, e - 1, m)) % m

\* The k with 2^-k <= p/100 < 2^(1-k), for p in 1..100.
RECURSIVE BinadeFrom(_, _)
BinadeFrom(p, k) == IF p * (2 ^ k) >= 100 THEN k ELSE BinadeFrom(p, k + 1)

\* The j with 2^j <= m < 2^(j+1), for m >= 1.
RECURSIVE Log2From(_, _)
Log2From(m, j) == IF 2 ^ (j + 1) > m THEN j ELSE Log2From(m, j + 1)

\* p * 2^(52+k) mod 100: what rounding p/100 to a double cuts off (< 50) or
\* fills up (> 50), in hundredths of its last place.
QuotientRemainder(p) == (p * PowMod(2, 52 + BinadeFrom(p, 0), 100)) % 100

\* fl(n * fl(p / 100)) < n * p / 100 = m, an integer.
ProductBelow(n, p, m) ==
    LET r == QuotientRemainder(p)
        k == BinadeFrom(p, 0)
        j == Log2From(m, 0)
        c == IF m = 2 ^ j THEN 4 ELSE 2
    IN  r > 0 /\ r < 50 /\ n * r * c > 100 * (2 ^ (k + j))

\* The limit computed in exact arithmetic.
limit_exact(n, star_amount) == (n * star_amount) \div 100

\* limit = int(len(stars) * (config.star_amount / 100.0))
limit(n, star_amount) ==
    LET m == (n * star_amount) \div 100
    IN  IF m >= 1 /\ (n * star_amount) % 100 = 0 /\ ProductBelow(n, star_amount, m)
        THEN m - 1
        ELSE m

\* active_stars = stars[:limit]
active_stars(list, star_amount) ==
    SubSeq(list, 1, Min(Len(list), limit(Len(list), star_amount)))

\* The values of the "Quantity Limit %" slider.
StarAmounts == 0 .. 100

InitRender ==
    /\ image_data = Zeros(0, 0, 3)
    /\ threshold = 1
    /\ pc = "render"
    /\ \E n \in 0 .. MaxStars, p \in StarAmounts :
           probe = [stars |-> [i \in 1 .. n |-> i], star_amount |-> p,
                    drawn |-> <<>>]
    /\ LocalsInit
    /\ WindowInit

\* Renderer.render: nothing for an empty list, else the active stars.
Render ==
    /\ pc = "render"
    /\ pc' = "rendered"
    /\ probe' = [probe EXCEPT !.drawn =
                     IF probe.stars = <<>>
                     THEN <<>>
                     ELSE active_stars(probe.stars, probe.star_amount)]
    /\ UNCHANGED <<image_data, threshold, locals, result, regions, skipped,
                   first, calls, window>>

NextRender == Render

SpecRender == InitRender /\ [][NextRender]_vars

(***************************************************************************)
(* find_local_peak alone, one iteration of its loop at a time, from every  *)
(* cell of a set of images.  probe holds the arguments, curr_x and curr_y, *)
(* the number of iterations that have moved, and the cells visited.        *)
(***************************************************************************)
\* Every image of the given size over a palette.
AllImages(width, height, palette) ==
    {[height |-> height, width |-> width, channels |-> 3, data |-> d] :
        d \in [1 .. width * height -> palette]}

\* A row of greys rising by 10 per pixel, and a square of greys rising by
\* 10 per pixel along both axes.
Ramp(width) ==
    [height |-> 1, width |-> width, channels |-> 3,
     data |-> [i \in 1 .. width |-> <<10 * i, 10 * i, 10 * i>>]]

Slope(size) ==
    [height |-> size, width |-> size, channels |-> 3,
     data |-> [i \in 1 .. size * size |->
                  LET g == 10 * (((i - 1) % size) + ((i - 1) \div size))
                  IN  <<g, g, g>>]]

PeakImages ==
    AllImages(3, 2, StripePalette)
    \cup {Ramp(PeakIterations + 4), Slope(12)}

InitPeak ==
    /\ image_data = Zeros(0, 0, 3)
    /\ threshold = 1
    /\ pc = "climb"
    /\ \E image \in PeakImages :
       \E x \in 0 .. image.width - 1, y \in 0 .. image.height - 1 :
           probe = [image |-> image, x |-> x, y |-> y,
                    curr_x |-> x, curr_y |-> y, moves |-> 0,
                    trail |-> << <<x, y>> >>]
    /\ LocalsInit
    /\ WindowInit

\* One iteration of the loop: a move to the brightest cell of the window
\* when it is brighter than the current cell, else the break and the
\* return.
PeakIterate ==
    /\ pc = "climb"
    /\ probe.moves < PeakIterations
    /\ LET best == WindowArgmax(probe.image, probe.curr_x, probe.curr_y)
       IN  IF LumAt(probe.image, best[1], best[2])
                  > LumAt(probe.image, probe.curr_x, probe.curr_y)
           THEN /\ probe' = [probe EXCEPT !.curr_x = best[1],
                                          !.curr_y = best[2],
                                          !.moves = @ + 1,
                                          !.trail = Append(@, best)]
                /\ pc' = "climb"
           ELSE /\ probe' = probe
                /\ pc' = "returned"
    /\ UNCHANGED <<image_data, threshold, locals, result, regions, skipped,
                   first, calls, window>>

\* range(20) is exhausted: the return after the last iteration.
PeakExhausted ==
    /\ pc = "climb"
    /\ probe.moves = PeakIterations
    /\ pc' = "returned"
    /\ UNCHANGED <<image_data, threshold, locals, result, regions, skipped,
                   first, calls, probe, window>>

NextPeak == PeakIterate \/ PeakExhausted

SpecPeak == InitPeak /\ [][NextPeak]_vars

(***************************************************************************)
(* MainWindow: the handlers that request a detection, the worker thread    *)
(* and the delivery of its stars.  The handlers run one at a time on the   *)
(* GUI thread; a worker runs beside them.  A thread is "running" from      *)
(* start() until it has emitted stars_detected, "emitted" until run() has  *)
(* returned, then "finished".                                              *)
(***************************************************************************)
\* The number of user actions in a behaviour.
MaxUserActions == 4

\* The number of image files the user picks from.
MaxImages == 2

\* Values the Threshold slider emits (range 1..100, step 1).
SliderValues == {1, 50, 100}

\* self.detect_timer.setInterval(200)
DebounceInterval == 200

\* QThread.isRunning() with the flag cleared when the signal is emitted.
IsRunningUntilEmit(t) == t.state = "running"

\* QThread.isRunning(): true until run() has returned.
IsRunning(t) == t.state \in {"running", "emitted"}

\* The deferral that returns without starting the timer.
TimerLeftAlone(timer) == timer

\* self.detect_timer.start(100): the timer of a deferred request.
TimerAfterDeferral(timer) == 100

\* self.thread.threshold, or -1 without a thread.
current_threshold == IF threads = <<>> THEN -1 ELSE threads[Len(threads)].threshold

\* The history passed on whole.
Untruncated(history, history_index) == history

\* self.history[:self.history_index + 1]
Truncated(history, history_index) == SubSeq(history, 1, history_index + 1)

\* MainWindow.on_stars_updated: the canvas is given the list, and with
\* push_history the redo entries are dropped and the list is appended.
\* The field last names what the last handler did to the history.
on_stars_updated(w, new_stars, push_history) ==
    IF push_history
    THEN [w EXCEPT !.stars = new_stars,
                   !.history = Append(Truncated(w.history, w.history_index),
                                      new_stars),
                   !.history_index = w.history_index + 1,
                   !.last = "push"]
    ELSE [w EXCEPT !.stars = new_stars, !.last = "none"]

\* The history left as it is.
keep_history(w, initial_stars) == w

\* MainWindow._reset_history
reset_history(w, initial_stars) ==
    [w EXCEPT !.history = <<initial_stars>>, !.history_index = 0]

\* MainWindow.on_stars_detected: canvas.set_stars and _reset_history.
on_stars_detected(w, new_stars) ==
    [reset_history([w EXCEPT !.stars = new_stars], new_stars)
        EXCEPT !.last = "detect"]

\* MainWindow.undo; history[k] of the source is history[k + 1] here.
undo(w) ==
    IF w.history_index > 0
    THEN [w EXCEPT !.history_index = w.history_index - 1,
                   !.stars = w.history[w.history_index],
                   !.last = "undo"]
    ELSE [w EXCEPT !.last = "none"]

\* MainWindow.redo
redo(w) ==
    IF w.history_index < Len(w.history) - 1
    THEN [w EXCEPT !.history_index = w.history_index + 1,
                   !.stars = w.history[w.history_index + 2],
                   !.last = "redo"]
    ELSE [w EXCEPT !.last = "none"]

\* MainWindow.detect_stars, called with the image and the threshold the
\* window holds and the state of the timer: nothing without an image, the
\* request deferred while the thread runs, else a new thread started.
DetectStars(image, thr, timer) ==
    IF image = 0
    THEN /\ request' = "ignored"
         /\ detect_timer' = timer
         /\ threads' = threads
    ELSE IF threads # <<>> /\ IsRunning(threads[Len(threads)])
    THEN /\ request' = "deferred"
         /\ detect_timer' = TimerAfterDeferral(timer)
         /\ threads' = threads
    ELSE /\ request' = "started"
         /\ detect_timer' = timer
         /\ threads' = Append(threads, [image |-> image, threshold |-> thr,
                                        state |-> "running"])

\* MainWindow.load_image with a file chosen.
LoadImage ==
    /\ pc = "window"
    /\ acted < MaxUserActions
    /\ \E i \in 1 .. MaxImages :
           /\ image_id' = i
           /\ DetectStars(i, config, detect_timer)
    /\ acted' = acted + 1
    /\ editor' = [editor EXCEPT !.image = TRUE, !.last = "none"]
    /\ UNCHANGED <<image_data, threshold, pc, locals, result, regions,
                   skipped, first, calls, probe, config, events, canvas>>

\* ControlPanel._update_config and MainWindow.on_config_changed: a slider
\* has set a field of the shared config, the threshold or another one.
ConfigChanged ==
    /\ pc = "window"
    /\ acted < MaxUserActions
    /\ \E v \in SliderValues \cup {config} :
           /\ config' = v
           /\ detect_timer' = IF image_id # 0 /\ v # current_threshold
                               THEN DebounceInterval
                               ELSE detect_timer
    /\ acted' = acted + 1
    /\ request' = "none"
    /\ UNCHANGED <<image_data, threshold, pc, locals, result, regions,
                   skipped, first, calls, probe, editor, image_id, threads, events,
                   canvas>>

\* MainWindow.reset_config.
ResetConfig ==
    /\ pc = "window"
    /\ acted < MaxUserActions
    /\ config' = DEFAULT_CONFIG
    /\ IF image_id # 0
       THEN DetectStars(image_id, DEFAULT_CONFIG, detect_timer)
       ELSE request' = "none" /\ UNCHANGED <<detect_timer, threads>>
    /\ acted' = acted + 1
    /\ UNCHANGED <<image_data, threshold, pc, locals, result, regions,
                   skipped, first, calls, probe, editor, image_id, events, canvas>>

\* The single-shot timer times out and calls MainWindow.detect_stars.
TimerFires ==
    /\ pc = "window"
    /\ detect_timer # 0
    /\ DetectStars(image_id, config, 0)
    /\ UNCHANGED <<image_data, threshold, pc, locals, result, regions,
                   skipped, first, calls, probe, editor, image_id, config, events,
                   canvas, acted>>

\* StarDetectionThread.run: detect_stars has returned and the stars are
\* emitted; the signal is queued for the GUI thread.
ThreadEmits ==
    /\ pc = "window"
    /\ \E k \in DOMAIN threads :
           /\ threads[k].state = "running"
           /\ threads' = [threads EXCEPT ![k].state = "emitted"]
           /\ events' = Append(events, k)
    /\ request' = "none"
    /\ UNCHANGED <<image_data, threshold, pc, locals, result, regions,
                   skipped, first, calls, probe, editor, image_id, config,
                   detect_timer, canvas, acted>>

\* StarDetectionThread.run returns.
ThreadReturns ==
    /\ pc = "window"
    /\ \E k \in DOMAIN threads :
           /\ threads[k].state = "emitted"
           /\ threads' = [threads EXCEPT ![k].state = "finished"]
    /\ request' = "none"
    /\ UNCHANGED <<image_data, threshold, pc, locals, result, regions,
                   skipped, first, calls, probe, editor, image_id, config,
                   detect_timer, events, canvas, acted>>

\* MainWindow.on_stars_detected: the stars of the oldest queued signal are
\* handed to the canvas and the history is reset to them.  The star list
\* of a thread is stood for by the input the thread was given.
StarsDetected ==
    /\ pc = "window"
    /\ events # <<>>
    /\ canvas' = <<[image |-> threads[Head(events)].image,
                    threshold |-> threads[Head(events)].threshold]>>
    /\ editor' = on_stars_detected(editor, canvas')
    /\ events' = Tail(events)
    /\ request' = "none"
    /\ UNCHANGED <<image_data, threshold, pc, locals, result, regions,
                   skipped, first, calls, probe, image_id, config, threads,
                   detect_timer, acted>>

InitWindow ==
    /\ image_data = Zeros(0, 0, 3)
    /\ threshold = 1
    /\ pc = "window"
    /\ probe = <<>>
    /\ LocalsInit
    /\ WindowInit

NextWindow ==
    \/ LoadImage
    \/ ConfigChanged
    \/ ResetConfig
    \/ TimerFires
    \/ ThreadEmits
    \/ ThreadReturns
    \/ StarsDetected

SpecWindow == InitWindow /\ [][NextWindow]_vars

\* The worker is scheduled, the timer times out and the event loop delivers
\* queued signals.
SpecWindowFair ==
    /\ SpecWindow
    /\ WF_vars(TimerFires)
    /\ WF_vars(ThreadEmits)
    /\ WF_vars(ThreadReturns)
    /\ WF_vars(StarsDetected)

(***************************************************************************)
(* MainWindow and CanvasPreview: the star list the canvas shows, the       *)
(* brush and the eraser, and the undo/redo history.  A detection           *)
(* completion delivers one of a few star lists; pointer positions are      *)
(* taken in image coordinates, as _screen_to_image returns them.           *)
(***************************************************************************)
\* The number of entries the history may hold in a behaviour.
MaxHistory == 3

\* CanvasPreview.star_input_radius and eraser_input_size as constructed.
star_input_radius == 4

eraser_input_size == 20

\* self.image.width() and self.image.height()
EditImage == [width |-> 40, height |-> 10]

\* Positions of the pointer: one left of the image, within the eraser's
\* radius of a star at x = 5 and not of one at x = 30, and one at x = 30.
PointerPositions == {<<-5, 0>>, <<30, 0>>}

ToolModes == {"none", "add", "erase"}

\* A star as detection returns it.
DetectedStar(x) ==
    [x |-> x * FP, y |-> 0, brightness |-> BrightnessOne, radius |-> 2 * FP,
     color |-> <<200 * FP, 200 * FP, 200 * FP>>]

\* The star lists a detection completion delivers.
Detections == {<<>>, <<DetectedStar(5), DetectedStar(30)>>}

\* CanvasPreview._add_star_at, pos being img_pos: nothing without an image
\* or outside it, else a white star of the brush radius is appended and
\* stars_updated is emitted with push_history.
add_star_at(w, pos) ==
    IF ~w.image
    THEN w
    ELSE IF pos[1] < 0 \/ pos[1] >= EditImage.width
              \/ pos[2] < 0 \/ pos[2] >= EditImage.height
    THEN w
    ELSE LET new_star == [x |-> pos[1] * FP, y |-> pos[2] * FP,
                          brightness |-> BrightnessOne,
                          radius |-> star_input_radius * FP,
                          color |-> <<255 * FP, 255 * FP, 255 * FP>>]
             new_stars == Append(w.stars, new_star)
         IN  on_stars_updated([w EXCEPT !.stars = new_stars], new_stars, TRUE)

\* CanvasPreview._erase_stars_at: the stars further than the eraser's
\* radius are kept; stars_updated is emitted when a star went.
erase_stars_at(w, pos, push_history) ==
    IF ~w.image
    THEN w
    ELSE LET Kept(star) ==
                 (star.x - pos[1] * FP) * (star.x - pos[1] * FP)
                     + (star.y - pos[2] * FP) * (star.y - pos[2] * FP)
                   > (eraser_input_size * FP) * (eraser_input_size * FP)
             filtered_stars == SelectSeq(w.stars, Kept)
         IN  IF Len(filtered_stars) # Len(w.stars)
             THEN on_stars_updated([w EXCEPT !.stars = filtered_stars],
                                   filtered_stars, push_history)
             ELSE w

\* CanvasPreview.mousePressEvent with the left button.
mousePressEvent(w, pos) ==
    IF w.tool_mode = "none"
    THEN [w EXCEPT !.is_dragging = TRUE]
    ELSE IF w.tool_mode = "add"
    THEN add_star_at(w, pos)
    ELSE erase_stars_at([w EXCEPT !.is_erasing = TRUE], pos, FALSE)

\* CanvasPreview.mouseMoveEvent
mouseMoveEvent(w, pos) ==
    IF w.is_dragging /\ w.tool_mode = "none"
    THEN w
    ELSE IF w.is_erasing /\ w.tool_mode = "erase"
    THEN erase_stars_at(w, pos, FALSE)
    ELSE w

\* CanvasPreview.mouseReleaseEvent with the left button.
mouseReleaseEvent(w) ==
    IF w.is_dragging /\ w.tool_mode = "none"
    THEN [w EXCEPT !.is_dragging = FALSE]
    ELSE IF w.is_erasing /\ w.tool_mode = "erase"
    THEN on_stars_updated([w EXCEPT !.is_erasing = FALSE], w.stars, TRUE)
    ELSE w

\* The handler starts with no change to the history recorded.
Handling == [editor EXCEPT !.last = "none"]

EditUnchanged ==
    UNCHANGED <<image_data, threshold, pc, locals, result, regions, skipped,
                first, calls, probe, image_id, config, threads, detect_timer,
                events, canvas, acted, request>>

\* MainWindow.load_image: canvas.set_image.
ImageSet ==
    /\ pc = "edit"
    /\ editor' = [Handling EXCEPT !.image = TRUE]
    /\ EditUnchanged

\* MainWindow.on_stars_detected with the stars of a finished detection.
DetectionCompletes ==
    /\ pc = "edit"
    /\ editor.image
    /\ \E new_stars \in Detections :
           editor' = on_stars_detected(Handling, new_stars)
    /\ EditUnchanged

\* MainWindow.set_tool_mode
SetToolMode ==
    /\ pc = "edit"
    /\ \E mode \in ToolModes : editor' = [Handling EXCEPT !.tool_mode = mode]
    /\ EditUnchanged

\* The left button goes down over the canvas.
MousePress ==
    /\ pc = "edit"
    /\ ~editor.button_down
    /\ \E pos \in PointerPositions :
           editor' = mousePressEvent([Handling EXCEPT !.button_down = TRUE], pos)
    /\ Len(editor'.history) <= MaxHistory
    /\ EditUnchanged

\* The pointer moves over the canvas, the button up or down.
MouseMove ==
    /\ pc = "edit"
    /\ \E pos \in PointerPositions : editor' = mouseMoveEvent(Handling, pos)
    /\ EditUnchanged

\* The left button goes up.
MouseRelease ==
    /\ pc = "edit"
    /\ editor.button_down
    /\ editor' = mouseReleaseEvent([Handling EXCEPT !.button_down = FALSE])
    /\ Len(editor'.history) <= MaxHistory
    /\ EditUnchanged

\* The Undo button is activated.
Undo ==
    /\ pc = "edit"
    /\ editor' = undo(Handling)
    /\ EditUnchanged

\* The Redo button is activated.
Redo ==
    /\ pc = "edit"
    /\ editor' = redo(Handling)
    /\ EditUnchanged

InitEdit ==
    /\ image_data = Zeros(0, 0, 3)
    /\ threshold = 1
    /\ pc = "edit"
    /\ probe = <<>>
    /\ LocalsInit
    /\ WindowInit

NextEdit ==
    \/ ImageSet
    \/ DetectionCompletes
    \/ SetToolMode
    \/ MousePress
    \/ MouseMove
    \/ MouseRelease
    \/ Undo
    \/ Redo

SpecEdit == InitEdit /\ [][NextEdit]_vars

(***************************************************************************)
(* The claims.                                                             *)
(***************************************************************************)
\* The set of the elements of a sequence.
Range(seq) == {seq[i] : i \in DOMAIN seq}

\* Two stars are both significant: both of radius >= 5, and the brightness
\* of the one of smaller radius at least 0.4 of the other's.
Significant(a, b) ==
    /\ a.radius >= 5 * FP
    /\ b.radius >= 5 * FP
    /\ \/ a.radius <= b.radius /\ 10 * a.brightness >= 4 * b.brightness
       \/ b.radius <= a.radius /\ 10 * b.brightness >= 4 * a.brightness

\* dist(a, b) < (a.radius + b.radius) * 0.25
Overlapping(a, b) ==
    LET dx == a.x - b.x
        dy == a.y - b.y
        reach == a.radius + b.radius
    IN  ProdLess(dx * dx + dy * dy, 4 * 4, reach, reach)

\* C1: in the sequence detect_stars returns, no two distinct stars that are
\* both significant (radius >= 5 each, brightness ratio >= 0.4) lie closer
\* than a quarter of the sum of their radii.
C1_NoOverlappingSignificantPair ==
    pc = "done" =>
        \A i, j \in DOMAIN result :
            (i # j /\ Significant(result[i], result[j]))
                => ~Overlapping(result[i], result[j])

\* A call has returned two significant stars, which the merge pass kept
\* apart.
C1_Witness ==
    /\ pc = "done"
    /\ Len(result) >= 2
    /\ Significant(result[1], result[2])
    /\ ~should_merge(result[1], result[2])

\* The pixels of the regions grown so far in this pass, the running one
\* included, in the order they were accepted.
RECURSIVE PixelsOf(_, _)
PixelsOf(grown, k) ==
    IF k = 0 THEN <<>> ELSE PixelsOf(grown, k - 1) \o grown[k].pixels

Accepted == PixelsOf(regions, Len(regions))
            \o (IF pc = "fill" THEN f.pixel_coords ELSE <<>>)

\* C2: within one pass a claimed pixel stays claimed and is accepted once:
\* every pixel a region of the pass has accepted is still in the claim mask,
\* and no pixel was accepted twice, by the same region or by two regions.
C2_ClaimedOnce ==
    /\ Range(Accepted) \subseteq checked
    /\ Cardinality(Range(Accepted)) = Len(Accepted)

\* Two regions have been grown in one pass, next to each other.
C2_Witness ==
    /\ Len(regions) >= 2
    /\ \E p \in Range(regions[1].pixels), q \in Range(regions[2].pixels) :
           Abs(p[1] - q[1]) + Abs(p[2] - q[2]) = 1

\* The peaks the growth loop has gone through.
Visited == {<<sorted_peaks[k][1], sorted_peaks[k][2]>> :
               k \in 1 .. Min(pi - 1, Len(sorted_peaks))}

ShapeRejected(r) == r.verdict \in {"axis", "aspect", "fill"}

\* C3: a region rejected by shape validation gives no star and its pixels
\* stay claimed: a later peak on one of them is skipped, and no later region
\* starts on or accepts one of them.
C3_RejectedStaysClaimed ==
    pc \in {"grow", "fill", "merge", "done"} =>
        /\ Len(stars) = Cardinality({i \in DOMAIN regions :
                                        regions[i].verdict = "star"})
        /\ \A i \in DOMAIN regions :
               ShapeRejected(regions[i]) =>
                   LET claimed == Range(regions[i].pixels)
                   IN  /\ regions[i].star = <<>>
                       /\ claimed \subseteq checked
                       /\ \A p \in Visited \cap claimed :
                              p = regions[i].peak \/ p \in skipped
                       /\ \A j \in DOMAIN regions :
                              j > i =>
                                  /\ regions[j].peak \notin claimed
                                  /\ Range(regions[j].pixels) \cap claimed = {}
                       /\ pc = "fill" =>
                              /\ f.start \notin claimed
                              /\ Range(f.pixel_coords) \cap claimed = {}

\* A region was rejected for its shape, and a later peak on it was skipped.
C3_Witness ==
    /\ pc = "done"
    /\ \E i \in DOMAIN regions :
           /\ ShapeRejected(regions[i])
           /\ skipped \cap Range(regions[i].pixels) # {}

\* C4: the returned sequence is in non-increasing order of
\* brightness * radius.
C4_SortedByProminence ==
    pc = "done" =>
        \A i \in 1 .. Len(result) - 1 :
            ~ProdLess(result[i].brightness, result[i].radius,
                      result[i + 1].brightness, result[i + 1].radius)

\* Two stars were returned, the first of smaller radius than the second.
C4_Witness ==
    /\ pc = "done"
    /\ Len(result) = 2
    /\ result[1].radius < result[2].radius
    /\ ProdLess(result[2].brightness, result[2].radius,
                result[1].brightness, result[1].radius)

\* C5: for a UI threshold in 1..100, every returned star has radius > 0,
\* brightness in [0, 1] and each colour channel in [0, 255].
C5_StarRanges ==
    (pc = "done" /\ threshold \in 1 .. 100) =>
        \A i \in DOMAIN result :
            /\ result[i].radius > 0
            /\ result[i].brightness >= 0
            /\ result[i].brightness <= BrightnessOne
            /\ \A k \in 1 .. 3 :
                   result[i].color[k] >= 0 /\ result[i].color[k] <= 255 * FP

\* A star of one pixel and of full brightness was returned.
C5_Witness ==
    /\ pc = "done"
    /\ \E i \in DOMAIN result :
           /\ result[i].brightness = BrightnessOne
           /\ result[i].radius = Radius(1)

\* C6: a call with the image and the sensitivity of the first call ends as
\* the first call ended, with the same star sequence, whatever calls were
\* made in between.
C6_SameInputSameOutcome ==
    (pc \in {"done", "error"} /\ first # <<>>
        /\ first[1].image = image_data /\ first[1].threshold = threshold)
    => Outcome = first[1].outcome

\* A third call has returned stars for the input of the first call, after a
\* call on another input.
C6_Witness ==
    /\ pc = "done"
    /\ calls = 3
    /\ first[1].image = image_data
    /\ first[1].threshold = threshold
    /\ result # <<>>
    /\ regions # <<>>
    /\ Len(merged_stars) = Len(result)

\* C7: map_threshold_to_internal is monotonic on 1..100, maps into
\* [140, 240], and maps 1 to 140 and 100 to 240 (cutoffs times 99).
C7_MonotonicIntoRange ==
    pc = "mapped" =>
        /\ probe.a < probe.b => probe.ta <= probe.tb
        /\ probe.ta >= 140 * ThresholdScale
        /\ probe.ta <= 240 * ThresholdScale
        /\ probe.a = 1 => probe.ta = 140 * ThresholdScale
        /\ probe.a = 100 => probe.ta = 240 * ThresholdScale

\* The map has been applied to the two ends of the range.
C7_Witness ==
    /\ pc = "mapped"
    /\ probe.a = 1
    /\ probe.b = 100
    /\ probe.ta < probe.tb

NoPixels(image) == image.width = 0 \/ image.height = 0

\* C8, as stated: a call on a buffer of fewer than three channels, or of
\* zero width or zero height, does not return a star sequence.
C8_AsStated ==
    (image_data.channels < 3 \/ NoPixels(image_data)) => pc # "done"

\* C8, amended: a call on a buffer of fewer than three channels ends in an
\* error and returns nothing; a call on a buffer of three or more channels
\* and of zero width or zero height raises no error and returns the empty
\* sequence.
C8_ChannelsOnly ==
    /\ image_data.channels < 3 => pc \in {"call", "error"}
    /\ (image_data.channels >= 3 /\ NoPixels(image_data)) =>
           /\ pc # "error"
           /\ pc = "done" => result = <<>>

\* A call on an empty buffer of three channels has returned the empty
\* sequence.
C8_Witness ==
    /\ pc = "done"
    /\ NoPixels(image_data)
    /\ image_data.channels = 3
    /\ calls = 1
    /\ result = <<>>

GridDark ==
    \A x \in 0 .. image_data.width - 1, y \in 0 .. image_data.height - 1 :
        (x % stride = 0 /\ y % stride = 0) =>
            ~AboveThreshold(LumAt(image_data, x, y),
                            map_threshold_to_internal(threshold))

\* C10: on an image of three channels or more with no stride-grid pixel
\* above the cutoff, all-black images among them, the call raises no error,
\* grows no region and returns the empty sequence.
C10_DarkGridReturnsEmpty ==
    (image_data.channels >= 3 /\ GridDark) =>
        /\ pc \notin {"error", "fill"}
        /\ regions = <<>>
        /\ stars = <<>>
        /\ pc = "done" => result = <<>>

\* A call has returned on an image with bright pixels off the stride grid
\* only.
C10_Witness ==
    /\ pc = "done"
    /\ result = <<>>
    /\ ~NoPixels(image_data)
    /\ GridDark
    /\ \E i \in DOMAIN image_data.data :
           AboveThreshold(Luminance(image_data.data[i]), internal_threshold)

\* The pixels of an image that are not black.
LitPixels(image) ==
    {c \in (0 .. image.width - 1) \X (0 .. image.height - 1) :
        LumAt(image, c[1], c[2]) > 0}

\* The points of the stride grid.
GridPoints(image) ==
    {c \in (0 .. image.width - 1) \X (0 .. image.height - 1) :
        c[1] % stride = 0 /\ c[2] % stride = 0}

RectInputs == {in.image : in \in RectScenes}

\* C12: for a filled bright rectangle of 40x4 px on black, detect_stars
\* returns no star: the one region grown is the rectangle, and it fails the
\* axis-ratio check and the bounding-box aspect check.
C12_RectangleYieldsNoStar ==
    (pc = "done" /\ image_data \in RectInputs) =>
        /\ result = <<>>
        /\ Len(regions) = 1
        /\ Range(regions[1].pixels) = LitPixels(image_data)
        /\ regions[1].verdict = "axis"
        /\ AxisRatioRejects(f)
        /\ AspectRejects(f)

\* A call on a rectangle has returned after growing and rejecting the
\* rectangle.
C12_Witness ==
    /\ pc = "done"
    /\ image_data \in RectInputs
    /\ Len(regions) = 1
    /\ Len(regions[1].pixels) = 40 * 4
    /\ regions[1].star = <<>>
    /\ skipped # {}

\* A thread whose run() has not returned.
Alive(t) == t.state # "finished"

SomeAlive == \E k \in DOMAIN threads : Alive(threads[k])

\* C13: at most one detection thread is alive at any time; while one is
\* alive no thread is created and the threads keep their input; and a
\* detection request made while one is alive is deferred: it leaves the
\* threads as they are and starts the timer with 100 ms.
C13_OneThreadAtATime ==
    /\ [](Cardinality({k \in DOMAIN threads : Alive(threads[k])}) <= 1)
    /\ [][SomeAlive =>
             /\ Len(threads') = Len(threads)
             /\ \A k \in DOMAIN threads :
                    /\ threads'[k].image = threads[k].image
                    /\ threads'[k].threshold = threads[k].threshold
                    /\ <<threads[k].state, threads'[k].state>> \in
                           {<<"running", "running">>, <<"running", "emitted">>,
                            <<"emitted", "emitted">>, <<"emitted", "finished">>,
                            <<"finished", "finished">>}
             /\ request' \in {"none", "deferred"}
             /\ request' = "deferred" =>
                    threads' = threads /\ detect_timer' = 100]_vars

\* A request has just been deferred while the thread has emitted its stars
\* and not yet returned.
C13_Witness ==
    /\ request = "deferred"
    /\ threads # <<>>
    /\ threads[Len(threads)].state = "emitted"
    /\ detect_timer = 100

\* The last thread was started by the last step, with the image and the
\* threshold the window holds.
StartedCurrent ==
    /\ request = "started"
    /\ threads[Len(threads)].image = image_id
    /\ threads[Len(threads)].threshold = config

\* The canvas shows stars computed from the image and the threshold the
\* window holds.
CanvasCurrent ==
    canvas = <<[image |-> image_id, threshold |-> config]>>

\* C14: given that the worker runs, the timer times out and queued signals
\* are delivered, a deferred request leads to a detection started with the
\* image and threshold current at its start, and once the user has stopped
\* the canvas shows, from some time on, stars of the current image and
\* threshold.
C14_DeferredRequestServed ==
    /\ (request = "deferred") ~> StartedCurrent
    /\ <>[](image_id # 0 => CanvasCurrent)

\* A request is deferred while the thread runs on another threshold than
\* the current one and the canvas shows stars of an older threshold.
C14_Witness ==
    /\ request = "deferred"
    /\ threads[Len(threads)].state = "running"
    /\ threads[Len(threads)].threshold # config
    /\ canvas # <<>>
    /\ ~CanvasCurrent

\* C15: every detection thread the window starts is given a sensitivity in
\* 1..100.
C15_SensitivityInRange ==
    \A k \in DOMAIN threads : threads[k].threshold \in 1 .. 100


(***************************************************************************)
(* C16.  Renderer.render draws exactly the first                            *)
(* floor(len(stars) * star_amount / 100) stars of the list, in list order:  *)
(* all of them at star_amount = 100 and none at star_amount = 0.            *)
(***************************************************************************)
C16_LeadingPrefix ==
    pc = "rendered" =>
        probe.drawn = SubSeq(probe.stars, 1,
                             limit_exact(Len(probe.stars), probe.star_amount))


(***************************************************************************)
(* C17.  The merge loop takes the raw stars in non-increasing order of     *)
(* radius.  A candidate is either appended to the kept stars or discarded, *)
(* and when it is discarded a kept star merges with it whose radius is at  *)
(* least the candidate's.  The first raw star, one of largest radius, is   *)
(* kept and is among the stars returned.  No iteration of the loop removes *)
(* or changes a star kept before.                                          *)
(***************************************************************************)
SameStar(a, b) ==
    /\ a.x = b.x
    /\ a.y = b.y
    /\ a.radius = b.radius
    /\ a.brightness = b.brightness

MergeLoopRuns == pc = "merge" /\ mi <= Len(stars)

C17_LargestFirstMerge ==
    /\ [](pc \in {"merge", "done"} =>
            /\ \A i, j \in DOMAIN stars :
                   i < j => stars[i].radius >= stars[j].radius
            /\ (pc = "merge" /\ mi > 1) => SameStar(merged_stars[1], stars[1])
            /\ (pc = "done" /\ stars # <<>>) =>
                   \E k \in DOMAIN result : SameStar(result[k], stars[1]))
    /\ [][MergeLoopRuns =>
            /\ SubSeq(merged_stars', 1, Len(merged_stars)) = merged_stars
            /\ \/ merged_stars' = Append(merged_stars, stars[mi])
               \/ /\ merged_stars' = merged_stars
                  /\ \E k \in DOMAIN merged_stars :
                         /\ should_merge(stars[mi], merged_stars[k])
                         /\ merged_stars[k].radius >= stars[mi].radius]_vars

\* A candidate has been discarded in favour of a strictly larger kept star.
C17_Witness ==
    /\ pc = "merge"
    /\ mi > 1
    /\ mi <= Len(stars) + 1
    /\ hi = 1
    /\ Len(merged_stars) < mi - 1
    /\ stars[mi - 1].radius < stars[1].radius


(***************************************************************************)
(* C18.  The brightness of a star that flood_fill_star returns is the      *)
(* largest luminance among the pixels accepted into its region, over 255:  *)
(* no accepted pixel is brighter than the value the brightness is taken    *)
(* from.                                                                   *)
(***************************************************************************)
MaxLumOver(image, pixels) ==
    LET lums == {LumAt(image, pixels[k][1], pixels[k][2]) : k \in DOMAIN pixels}
    IN  CHOOSE l \in lums : \A m \in lums : m <= l

C18_BrightnessIsRegionMaximum ==
    \A k \in DOMAIN regions :
        regions[k].star # <<>> =>
            regions[k].star[1].brightness =
                MaxLumOver(image_data, regions[k].pixels)


(***************************************************************************)
(* C19.  flood_fill_star never accepts more pixels than its cap,            *)
(* int(1000 + (max_lum / 255) * 50000).  When the count reaches the cap      *)
(* the loop stops, also with coordinates left on the stack, and the region  *)
(* is validated and finalized from the pixels accepted so far: the call     *)
(* returns, it does not raise.                                              *)
(***************************************************************************)
\* 1000 + (max_lum / 255) * 50000, cut to an integer, for the luminance of
\* the start pixel in units of 1/5000.
CapOf(image, peak) == 1000 + (10 * LumAt(image, peak[1], peak[2])) \div 255

CapReached == pc = "fill" /\ f.pixel_count >= f.max_pixels

C19_CapStopsTheFill ==
    /\ [](/\ pc = "fill" =>
                 /\ f.max_pixels = CapOf(image_data, f.start)
                 /\ f.pixel_count <= f.max_pixels
                 /\ Len(f.pixel_coords) = f.pixel_count
          /\ \A k \in DOMAIN regions :
                 Len(regions[k].pixels) <= CapOf(image_data, regions[k].peak))
    /\ [][CapReached =>
            /\ pc' = "grow"
            /\ Len(regions') = Len(regions) + 1
            /\ regions'[Len(regions')].pixels = f.pixel_coords
            /\ regions'[Len(regions')].verdict = Verdict(f)
            /\ ~regions'[Len(regions')].raised
            /\ stars' = stars \o FloodFillResult(f)]_vars

\* The loop has stopped at the cap with coordinates left on the stack.
C19_Witness ==
    /\ pc = "fill"
    /\ f.pixel_count = f.max_pixels
    /\ f.stack # <<>>
    /\ Verdict(f) = "star"


(***************************************************************************)
(* C20.  find_local_peak moves at most 20 times, each time to a cell of    *)
(* the 3x3 neighbourhood, clipped to the image, that is strictly brighter  *)
(* than the cell it leaves.  It returns a cell of the image at least as    *)
(* bright as the start, and when it has stopped before the cap of 20 no    *)
(* cell of the clipped 3x3 neighbourhood of the returned cell is strictly  *)
(* brighter than it.                                                       *)
(***************************************************************************)
InImage(image, c) ==
    /\ 0 <= c[1] /\ c[1] < image.width
    /\ 0 <= c[2] /\ c[2] < image.height

Neighbourhood(image, c) ==
    {d \in (c[1] - 1 .. c[1] + 1) \X (c[2] - 1 .. c[2] + 1) : InImage(image, d)}

BrighterNear(image, c) ==
    \E d \in Neighbourhood(image, c) :
        LumAt(image, d[1], d[2]) > LumAt(image, c[1], c[2])

C20_ClimbToLocalPeak ==
    pc \in {"climb", "returned"} =>
        LET image == probe.image
            curr == <<probe.curr_x, probe.curr_y>>
        IN  /\ probe.moves <= 20
            /\ Len(probe.trail) = probe.moves + 1
            /\ \A k \in 1 .. probe.moves :
                   /\ probe.trail[k + 1] \in Neighbourhood(image, probe.trail[k])
                   /\ LumAt(image, probe.trail[k + 1][1], probe.trail[k + 1][2])
                          > LumAt(image, probe.trail[k][1], probe.trail[k][2])
            /\ pc = "returned" =>
                   /\ InImage(image, curr)
                   /\ LumAt(image, curr[1], curr[2])
                          >= LumAt(image, probe.x, probe.y)
                   /\ find_local_peak(image, probe.x, probe.y)
                          = <<curr[1], curr[2], LumAt(image, curr[1], curr[2])>>
                   /\ probe.moves < 20 => ~BrighterNear(image, curr)

\* The climb has returned before the cap, some cells away from its start.
C20_Witness ==
    /\ pc = "returned"
    /\ probe.moves > 1
    /\ probe.moves < 20
    /\ ~BrighterNear(probe.image, <<probe.curr_x, probe.curr_y>>)

(***************************************************************************)
(* C21.  Candidates whose climb ends on the same cell give one peak.  The  *)
(* regions are grown in non-increasing order of peak luminance, at most    *)
(* one from each peak coordinate, and when a region grows from a peak,     *)
(* every strictly brighter peak has been grown or skipped as claimed.      *)
(***************************************************************************)
PeakCell(p) == <<p[1], p[2]>>

GrownPeaks == {regions[k].peak : k \in DOMAIN regions}

C21_BrightestPeakFirst ==
    /\ pc \in {"peaks", "grow", "fill", "merge", "done"} =>
           \A i, j \in DOMAIN unique_peaks :
               PeakCell(unique_peaks[i]) = PeakCell(unique_peaks[j]) => i = j
    /\ pc \in {"grow", "fill", "merge", "done"} =>
           /\ Len(sorted_peaks) = Len(unique_peaks)
           /\ Range(sorted_peaks) = Range(unique_peaks)
           /\ \A i, j \in DOMAIN sorted_peaks :
                  i < j => sorted_peaks[i][3] >= sorted_peaks[j][3]
           /\ \A i, j \in DOMAIN regions :
                  /\ regions[i].peak = regions[j].peak => i = j
                  /\ i < j => LumAt(image_data, regions[i].peak[1], regions[i].peak[2])
                              >= LumAt(image_data, regions[j].peak[1], regions[j].peak[2])
           /\ GrownPeaks \cap skipped = {}
    /\ pc = "fill" =>
           /\ f.start \notin GrownPeaks \cup skipped
           /\ \A k \in DOMAIN unique_peaks :
                  unique_peaks[k][3] > LumAt(image_data, f.start[1], f.start[2])
                      => PeakCell(unique_peaks[k]) \in GrownPeaks \cup skipped

\* A region grows from a peak dimmer than one grown before it, in a call
\* where several candidates ended on one peak and a brighter peak was
\* skipped as claimed.
C21_Witness ==
    /\ pc = "fill"
    /\ Len(unique_peaks) < Len(candidates)
    /\ skipped # {}
    /\ \E k \in DOMAIN regions :
           LumAt(image_data, regions[k].peak[1], regions[k].peak[2])
               > LumAt(image_data, f.start[1], f.start[2])

(***************************************************************************)
(* C22.  flood_fill_star claims a popped pixel only if it is in bounds,    *)
(* not yet claimed, of luminance above the cutoff and of at least a fifth  *)
(* of max_lum.  A popped pixel at or below the cutoff, or below a fifth of *)
(* max_lum, stays unclaimed and changes no sum, bounding box or count:     *)
(* the iteration only takes it off the stack.                              *)
(***************************************************************************)
Popped == f.stack[Len(f.stack)]

AfterPop == [f EXCEPT !.stack = SubSeq(f.stack, 1, Len(f.stack) - 1)]

TooDim(c) ==
    \/ ~AboveThreshold(LumAt(image_data, c[1], c[2]), internal_threshold)
    \/ 5 * LumAt(image_data, c[1], c[2]) < f.max_lum

C22_ClaimOnlyBrightEnough ==
    [][(pc = "fill" /\ FloodFillRunning(f)) =>
           /\ checked' \in {checked, checked \cup {Popped}}
           /\ Popped \in checked' \ checked =>
                  /\ InImage(image_data, Popped)
                  /\ ~TooDim(Popped)
                  /\ f'.pixel_count = f.pixel_count + 1
           /\ (~InImage(image_data, Popped) \/ Popped \in checked) =>
                  f' = AfterPop
           /\ (InImage(image_data, Popped) /\ TooDim(Popped)) =>
                  /\ checked' = checked
                  /\ f' = AfterPop]_vars

\* A pixel beside the region, above the cutoff but below a fifth of max_lum,
\* has been popped and left unclaimed.
C22_Witness ==
    /\ pc = "fill"
    /\ f.pixel_count >= 1
    /\ \E k \in DOMAIN f.pixel_coords :
       \E c \in Neighbourhood(image_data, f.pixel_coords[k]) :
           /\ c[1] = f.pixel_coords[k][1] \/ c[2] = f.pixel_coords[k][2]
           /\ c \notin checked
           /\ c \notin Range(f.stack)
           /\ AboveThreshold(LumAt(image_data, c[1], c[2]), internal_threshold)
           /\ 5 * LumAt(image_data, c[1], c[2]) < f.max_lum

(***************************************************************************)
(* C23.  flood_fill_star puts coordinates on the stack only in an          *)
(* iteration that accepts a pixel, and then only axis neighbours of that   *)
(* pixel that are in bounds and whose luminance is at most                 *)
(* path_min + max(10, 0.15 * path_min), path_min being the least luminance *)
(* accepted so far, the current pixel included.                            *)
(***************************************************************************)
AxisNeighbours(c) ==
    {<<c[1] + 1, c[2]>>, <<c[1] - 1, c[2]>>, <<c[1], c[2] + 1>>, <<c[1], c[2] - 1>>}

\* The least luminance among the given pixels.
MinLumOver(image, pixels) ==
    LET lums == {LumAt(image, pixels[k][1], pixels[k][2]) : k \in DOMAIN pixels}
    IN  CHOOSE l \in lums : \A m \in lums : l <= m

\* nl <= m + max(10, 0.15 * m), for luminances in units of 1/5000.
WithinTolerance(nl, m) ==
    \/ (15 * m <= 1000 * LumScale /\ nl <= m + 10 * LumScale)
    \/ (15 * m > 1000 * LumScale /\ 100 * nl <= 115 * m)

C23_PushOnlyWithinValley ==
    [][(pc = "fill" /\ FloodFillRunning(f)) =>
           LET kept == Len(f.stack) - 1
           IN  /\ Len(f'.stack) >= kept
               /\ SubSeq(f'.stack, 1, kept) = AfterPop.stack
               /\ Len(f'.stack) > kept =>
                      /\ Popped \in checked' \ checked
                      /\ f'.path_min_lum = MinLumOver(image_data, f'.pixel_coords)
               /\ \A k \in kept + 1 .. Len(f'.stack) :
                      /\ f'.stack[k] \in AxisNeighbours(Popped)
                      /\ InImage(image_data, f'.stack[k])
                      /\ WithinTolerance(LumAt(image_data, f'.stack[k][1],
                                               f'.stack[k][2]),
                                         MinLumOver(image_data, f'.pixel_coords))]_vars

\* The pixel accepted last has pushed one neighbour and held back another,
\* an in-bounds one brighter than the tolerance allows.
C23_Witness ==
    /\ pc = "fill"
    /\ f.pixel_count >= 2
    /\ LET last == f.pixel_coords[Len(f.pixel_coords)]
       IN  /\ f.stack # <<>>
           /\ f.stack[Len(f.stack)] \in AxisNeighbours(last)
           /\ \E c \in AxisNeighbours(last) :
                  /\ InImage(image_data, c)
                  /\ c \notin checked
                  /\ c \notin Range(f.stack)
                  /\ ~WithinTolerance(LumAt(image_data, c[1], c[2]), f.path_min_lum)

(***************************************************************************)
(* C24.  flood_fill_star returns a star only for a region that passes the  *)
(* shape checks that apply to it: the longer side of its bounding box at   *)
(* most 5 times the shorter; at least a tenth of the box filled when it    *)
(* has more than 50 pixels; and, with 10 pixels or more and both           *)
(* eigenvalues of the covariance positive, sqrt(lambda1 / lambda2) at most *)
(* 1.5.  A region that fails one of them gives no star.                    *)
(***************************************************************************)
\* The accepted pixels of a region and the bounding box they span.
ShapeOf(region) ==
    LET px == region.pixels
        xs == {px[k][1] : k \in DOMAIN px}
        ys == {px[k][2] : k \in DOMAIN px}
    IN  [pixel_count |-> Len(px), pixel_coords |-> px,
         w |-> Cardinality((CHOOSE x \in xs : \A z \in xs : x <= z)
                           .. (CHOOSE x \in xs : \A z \in xs : z <= x)),
         h |-> Cardinality((CHOOSE y \in ys : \A z \in ys : y <= z)
                           .. (CHOOSE y \in ys : \A z \in ys : z <= y))]

\* max(w, h) / max(min(w, h), 1) > 5
TooLong(shape) == Max(shape.w, shape.h) > 5 * Max(Min(shape.w, shape.h), 1)

\* count > 50 and count / bbox_area < 0.10
TooSparse(shape) ==
    shape.pixel_count > 50 /\ 10 * shape.pixel_count < shape.w * shape.h

FailsShape(region) ==
    \/ TooLong(ShapeOf(region))
    \/ TooSparse(ShapeOf(region))
    \/ AxisRatioRejects(ShapeOf(region))

C24_StarOnlyIfShapely ==
    \A k \in DOMAIN regions :
        regions[k].pixels # <<>> =>
            /\ regions[k].star # <<>> => ~FailsShape(regions[k])
            /\ FailsShape(regions[k]) => regions[k].star = <<>>
            /\ (~FailsShape(regions[k]) /\ ~regions[k].raised) =>
                   regions[k].star # <<>>

\* A region of more than 50 pixels, as long as wide and as broad along one
\* axis as along the other, that fills less than a tenth of its box.
C24_Witness ==
    \E k \in DOMAIN regions :
        /\ TooSparse(ShapeOf(regions[k]))
        /\ ~TooLong(ShapeOf(regions[k]))
        /\ ~AxisRatioRejects(ShapeOf(regions[k]))
        /\ regions[k].star = <<>>

(***************************************************************************)
(* C25.  After the merge every kept star is changed once, and only in its  *)
(* color.  The color of a returned star is the mean, channel by channel,   *)
(* of the image at those of the 24 ring samples at 2.25 * radius around it *)
(* that are in bounds, or (255, 255, 255) when none is; its x, y,          *)
(* brightness and radius are those region growing gave it.                 *)
(***************************************************************************)
\* The in-bounds ones of the 24 samples around a star, by index.
RingInside(image, star) ==
    {i \in 0 .. samples - 1 : InImage(image, HaloSample(star, i))}

RECURSIVE ChannelSum(_, _, _, _)
ChannelSum(image, star, ch, idx) ==
    IF idx = {} THEN 0
    ELSE LET i == CHOOSE j \in idx : TRUE
             s == HaloSample(star, i)
         IN  PixelAt(image, s[1], s[2])[ch]
             + ChannelSum(image, star, ch, idx \ {i})

\* c is the mean of the channel over the ring, cut to 1/256.
IsRingMean(image, star, ch, c) ==
    LET idx == RingInside(image, star)
        n == Cardinality(idx)
        total == ChannelSum(image, star, ch, idx) * FP
    IN  c * n <= total /\ total < (c + 1) * n

HasRingColor(image, star) ==
    IF RingInside(image, star) = {}
    THEN star.color = <<255 * FP, 255 * FP, 255 * FP>>
    ELSE \A ch \in 1 .. 3 : IsRingMean(image, star, ch, star.color[ch])

HaloLoopRuns == pc = "merge" /\ mi > Len(stars) /\ hi <= Len(merged_stars)

C25_OnlyTheColorChanges ==
    /\ [](pc = "done" =>
            \A k \in DOMAIN result :
                /\ HasRingColor(image_data, result[k])
                /\ \E j \in DOMAIN regions :
                       /\ regions[j].star # <<>>
                       /\ SameStar(result[k], regions[j].star[1]))
    /\ [][HaloLoopRuns =>
            /\ hi' = hi + 1
            /\ Len(merged_stars') = Len(merged_stars)
            /\ \A k \in DOMAIN merged_stars :
                   /\ SameStar(merged_stars'[k], merged_stars[k])
                   /\ k # hi => merged_stars'[k] = merged_stars[k]
            /\ HasRingColor(image_data, merged_stars'[hi])]_vars

\* A returned star whose ring lies partly outside the image and whose
\* color is that of the ring, not the one region growing gave it.
C25_Witness ==
    /\ pc = "done"
    /\ \E k \in DOMAIN result :
           /\ RingInside(image_data, result[k]) # {}
           /\ RingInside(image_data, result[k]) # 0 .. samples - 1
           /\ \A j \in DOMAIN regions :
                  regions[j].star # <<>> =>
                      regions[j].star[1].color # result[k].color

(***************************************************************************)
(* C26.  As stated: when flood_fill_star claims a pixel other than the     *)
(* start, its luminance is at most m + max(10, 0.15 * m), m being the      *)
(* least luminance among the pixels the region has claimed before it.      *)
(* What holds: the bound is met for the least luminance among the pixels   *)
(* claimed up to the neighbour that put the pixel on the stack; the        *)
(* region's minimum may have dropped by the time the pixel is claimed.     *)
(***************************************************************************)
Claims == pc = "fill" /\ FloodFillRunning(f) /\ Popped \in checked' \ checked

LumOf(c) == LumAt(image_data, c[1], c[2])

C26_AsStated ==
    [][(Claims /\ f.pixel_count >= 1) =>
           WithinTolerance(LumOf(Popped),
                           MinLumOver(image_data, f.pixel_coords))]_vars

C26_WithinToleranceWhenPushed ==
    [][(Claims /\ f.pixel_count >= 1) =>
           \E j \in DOMAIN f.pixel_coords :
               /\ Popped \in AxisNeighbours(f.pixel_coords[j])
               /\ WithinTolerance(LumOf(Popped),
                                  MinLumOver(image_data,
                                             SubSeq(f.pixel_coords, 1, j)))]_vars

\* The pixel claimed last is brighter than the tolerance above the least
\* luminance claimed before it.
C26_Witness ==
    /\ pc = "fill"
    /\ f.pixel_count >= 2
    /\ ~WithinTolerance(LumOf(f.pixel_coords[f.pixel_count]),
                        MinLumOver(image_data,
                                   SubSeq(f.pixel_coords, 1, f.pixel_count - 1)))


\* C27: in MainWindow the history cursor stays in range after any sequence
\* of detection completions, brush adds, eraser gestures, undo and redo:
\* -1 <= history_index <= len(history) - 1, history_index is -1 only while
\* the history is empty, and right after a push or a detection completion
\* history_index = len(history) - 1, so that redo does nothing.
C27_CursorInRange ==
    /\ -1 <= editor.history_index
    /\ editor.history_index <= Len(editor.history) - 1
    /\ editor.history_index = -1 => editor.history = <<>>
    /\ editor.last \in {"push", "detect"} =>
           /\ editor.history_index = Len(editor.history) - 1
           /\ redo(editor).history_index = editor.history_index

\* A push has just been made below the top of a history that had more
\* entries than the cursor's: the redo entries are gone.
C27_Witness ==
    /\ editor.last = "push"
    /\ editor.history_index = 1
    /\ Len(editor.history) = 2
    /\ Len(editor.history[2]) < Len(editor.history[1])

\* The star list of the cursor's entry.
CursorEntry == editor.history[editor.history_index + 1]

\* C28: whenever the history is non-empty and no eraser drag is in progress
\* the star list the canvas shows is history[history_index], after any
\* sequence of detection completions, brush adds, eraser gestures, tool
\* changes, undo and redo.
C28_CanvasShowsCursorEntry ==
    (editor.history # <<>> /\ ~editor.is_erasing) => editor.stars = CursorEntry

\* An eraser gesture that removed a star has just been completed.
C28_Witness ==
    /\ editor.last = "push"
    /\ ~editor.is_erasing
    /\ editor.tool_mode = "erase"
    /\ editor.history_index >= 1
    /\ Len(editor.stars) < Len(editor.history[editor.history_index])
    /\ editor.stars = CursorEntry

\* C29: when undo is enabled, undo followed at once by redo restores
\* history_index and the star list shown and changes no history entry; and
\* after a push no entry lies beyond the cursor.
C29_UndoRedoInverse ==
    /\ editor.history_index > 0 =>
           LET back == redo(undo(editor))
           IN  /\ back.history_index = editor.history_index
               /\ back.stars = editor.stars
               /\ back.history = editor.history
    /\ editor.last = "push" =>
           Len(editor.history) = editor.history_index + 1

\* C30: a detection result is applied to the canvas and the history only
\* when it was computed from the image the window holds.
C30_AppliedOnlyIfCurrent ==
    editor.last = "detect" =>
        /\ canvas[1].image = image_id
        /\ editor.stars = canvas
        /\ editor.history = <<canvas>>
=============================================================================
